---- MODULE Spec2Model ----
(***************************************************************************)
(* A model of icefed/zlog: the JSONHandler (handler.go), its JSON encoder  *)
(* (encode_json, kept here as src/unnamed/part_017), the text encoder of   *)
(* development mode and the pooled buffer.                                 *)
(*                                                                         *)
(* Bytes are modelled as tokens <<kind, text>>: one token is one           *)
(* punctuation byte or one complete JSON literal.  Go slices are modelled  *)
(* as (array, len, cap) triples over a heap of backing arrays, because the *)
(* handler's group list and preformatted bytes are slices that clones and  *)
(* encoders alias.                                                         *)
(***************************************************************************)
EXTENDS Integers, Sequences, FiniteSets, TLC

VARIABLES
    handlers,   \* heap of *JSONHandler: <<[c, isTerm, groups, pre]>>
    cfgs,       \* heap of *Config
    garrs,      \* heap of []string backing arrays (group names)
    barrs,      \* heap of []byte backing arrays (preformatted attrs), in tokens
    pool,       \* buffer.bufferPool: the buffers put back by Free
    rec,        \* the slog.Record the logger is building
    last,       \* what the last operation was and what it returned
    procs,      \* goroutines calling Handle concurrently
    sink,       \* what the shared sink has received, chunk by chunk
    enc,        \* a stand-alone jsonEncoder driven call by call
    levelColorList, \* the package's level colours: <<[Level, string]>>
    call,       \* a call of a function of the package: its argument, its output
    callers     \* goroutines inside the level-colour functions: position, locals

vars == <<handlers, cfgs, garrs, barrs, pool, rec, last, procs, sink, enc,
          levelColorList, call, callers>>

----------------------------------------------------------------------------
(* Bounds of the model.                                                    *)

MaxHandlers == 4      \* handlers on the heap, the first one included
MaxChain == 3         \* handlers of a With... chain, the first one included
MaxAttrs == 2         \* attributes of a record
MaxOpens == 3         \* groups opened in one buffer

----------------------------------------------------------------------------
(* Tokens.                                                                 *)

P(c) == <<"p", c>>        \* one punctuation byte
K(s) == <<"k", s>>        \* a key: the JSON string literal of s
S(s) == <<"s", s>>        \* a JSON string literal (escaped by safeAddString)
E(s) == <<"e", s>>        \* a JSON string literal that starts with !ERROR:
N(s) == <<"n", s>>        \* a JSON number, true, false or null
R(s) == <<"r", s>>        \* raw bytes that json.Valid accepted
B(s) == <<"b", s>>        \* bare text that is no JSON value (NaN, +Inf)
T(s) == <<"t", s>>        \* plain text of the development-mode line

LB == P("{")
RB == P("}")
Comma == P(",")
Colon == P(":")
Space == P(" ")
Tab == P("\t")
lineEnding == P("\n")
ZeroByte == P("0")

Max(a, b) == IF a >= b THEN a ELSE b

----------------------------------------------------------------------------
(* Go slices over a heap of backing arrays.                                *)

NilSlice == [a |-> 0, len |-> 0, cap |-> 0]

\* the elements a slice shows: s[0:len]
View(heap, s) == IF s.len = 0 THEN <<>> ELSE SubSeq(heap[s.a], 1, s.len)

\* slices.Clip: s[:len(s):len(s)]
Clip(s) == [s EXCEPT !.cap = s.len]

\* s[:len(s)-1]
DropLast(s) == [s EXCEPT !.len = s.len - 1]

\* runtime.growslice: the capacity asked for when the old one does not suffice
GrowCap(oldcap, need) == IF need > 2 * oldcap THEN need ELSE 2 * oldcap

\* runtime.roundupsize for byte arrays: the malloc size classes 8,16,24,32,48,64,...
RoundUpSize(n) ==
    IF n <= 32 THEN ((n + 7) \div 8) * 8 ELSE ((n + 15) \div 16) * 16

Zeros(n, z) == [i \in 1..n |-> z]

\* append(s, x): in place when len < cap, else into a fresh, larger array
\* newcap is the capacity of the fresh array, z the zero element
AppendTo(heap, s, x, newcap, z) ==
    IF s.len < s.cap
    THEN [heap |-> [heap EXCEPT ![s.a][s.len + 1] = x],
          s |-> [s EXCEPT !.len = s.len + 1]]
    ELSE [heap |-> Append(heap, View(heap, s) \o <<x>> \o Zeros(newcap - s.len - 1, z)),
          s |-> [a |-> Len(heap) + 1, len |-> s.len + 1, cap |-> newcap]]

\* append on a []string: 16-byte elements, every small capacity is a size class
AppendG(heap, s, x) == AppendTo(heap, s, x, GrowCap(s.cap, s.len + 1), "")

\* append of one byte on a []byte
AppendB(heap, s, x) ==
    AppendTo(heap, s, x, RoundUpSize(GrowCap(s.cap, s.len + 1)), ZeroByte)

\* Buffer.Write / WriteByte / WriteString, byte after byte, on b = [heap, s]
RECURSIVE BufferWrite(_, _)
BufferWrite(b, xs) ==
    IF xs = <<>> THEN b
    ELSE BufferWrite(AppendB(b.heap, b.s, Head(xs)), Tail(xs))

\* arrays allocated after the first n are unreachable once their encoder is dropped
Collect(heap, n) == SubSeq(heap, 1, n)

----------------------------------------------------------------------------
(* Attributes, records and the caller-supplied functions.                  *)

Leaf(k, v) == [k |-> k, v |-> v, g |-> <<>>]
Group(k, as) == [k |-> k, v |-> "group", g |-> as]
\* a value computed when it is resolved: a slog.LogValuer that returns the
\* value of the attribute res
Lazy(k, res) == [k |-> k, v |-> "lazy", g |-> <<res>>]

\* kinds whose marshaling function panics
PanicKinds == {"mjPanic", "mtPanic"}

\* the keys of the built-in fields
BuiltInKeys == {"time", "level", "source", "msg", "stacktrace"}

\* values of slog.KindTime: the record's time and another instant
TimeKinds == {"time", "time2"}

\* ReplaceAttr hooks by name; "nil" is no hook
\*   id:       returns the attribute unchanged
\*   drop:     returns an empty key for the attribute named pw
\*   dropTime: returns an empty key for the attribute named time
\*   dropAll:  returns an empty key for pw and for every built-in key
\*   rename:   returns the time attribute under the key ts
\*   retime:   returns the time attribute with another instant as its value
\*   untime:   returns the time attribute with an integer as its value
\*   regroup:  returns the time attribute and pw with a group as their value
\*   relazy:   returns the time attribute and pw with a lazy value that
\*             produces an integer
ReplaceAttr(hook, groups, a) ==
    CASE hook = "drop" /\ a.k = "pw" -> [a EXCEPT !.k = ""]
      [] hook = "dropTime" /\ a.k = "time" -> [a EXCEPT !.k = ""]
      [] hook = "dropAll" /\ a.k \in BuiltInKeys \cup {"pw"} -> [a EXCEPT !.k = ""]
      [] hook = "rename" /\ a.k = "time" -> [a EXCEPT !.k = "ts"]
      [] hook = "retime" /\ a.k = "time" /\ a.v = "time" -> [a EXCEPT !.v = "time2"]
      [] hook = "untime" /\ a.k = "time" /\ a.v = "time" -> [a EXCEPT !.v = "int"]
      [] hook = "regroup" /\ a.k \in {"time", "pw"} -> Group(a.k, <<Leaf("a", "int")>>)
      [] hook = "relazy" /\ a.k \in {"time", "pw"} -> Lazy(a.k, Leaf(a.k, "int"))
      [] OTHER -> a

\* ContextExtractors by name; "nil" is a nil entry of the list
Extract(ex) ==
    CASE ex = "user" -> <<Leaf("user", "str")>>
      [] ex = "trace" -> <<Group("trace", <<Leaf("id", "str"), Leaf("span", "int")>>)>>
      [] OTHER -> <<>>

LevelDebug == -4
LevelInfo == 0
LevelWarn == 4
LevelError == 8

----------------------------------------------------------------------------
(* Config and JSONHandler.                                                 *)

\* Level is <<>> for a nil slog.Leveler, <<l>> for the level l
defaultConfig ==
    [AddSource |-> FALSE, Level |-> <<LevelInfo>>,
     Development |-> FALSE, StacktraceEnabled |-> FALSE,
     StacktraceLevel |-> LevelError, ReplaceAttr |-> "nil",
     ContextExtractors |-> <<>>, IgnoreEmptyGroup |-> FALSE, Writer |-> "w",
     TimeKey |-> "time"]

\* Config.copy: a new struct with the extractor list cloned
copy(c) == [c EXCEPT !.ContextExtractors = SubSeq(@, 1, Len(@))]

World == [handlers |-> handlers, cfgs |-> cfgs, garrs |-> garrs, barrs |-> barrs]

\* NewJSONHandler(config)
NewJSONHandler(config) ==
    [handlers |-> <<[c |-> 1, isTerm |-> FALSE, groups |-> NilSlice, pre |-> NilSlice]>>,
     cfgs |-> <<config>>, garrs |-> <<>>, barrs |-> <<>>]

\* a clone that keeps the parent's spare capacity (no slices.Clip)
clone_NoClip(w, h) ==
    [w EXCEPT !.cfgs = Append(@, copy(w.cfgs[w.handlers[h].c])),
              !.handlers = Append(@, [w.handlers[h] EXCEPT !.c = Len(w.cfgs) + 1])]

\* JSONHandler.clone: the new handler is the last of w.handlers
clone(w, h) ==
    [w EXCEPT !.cfgs = Append(@, copy(w.cfgs[w.handlers[h].c])),
              !.handlers = Append(@, [c |-> Len(w.cfgs) + 1,
                                      isTerm |-> w.handlers[h].isTerm,
                                      groups |-> Clip(w.handlers[h].groups),
                                      pre |-> Clip(w.handlers[h].pre)])]

----------------------------------------------------------------------------
(* jsonEncoder.  An encoder is a record                                    *)
(*   buf   the buffer's bytes                                              *)
(*   og    enc.openGroups, a slice over garrs                              *)
(*   garrs the heap of group arrays as this encoder sees and writes it     *)
(*   hook  enc.replaceAttr                                                 *)
(*   st    "ok", or "panic" once a panic unwinds the call                  *)
(*   todo  the attributes still to append: AppendAttr's recursion as a     *)
(*         stack, so that concurrent calls can interleave between two      *)
(*         attributes                                                      *)
(*   own, path, pown  history: the groups this encoder opened itself, the  *)
(*         group path the hook was last given, and own at that moment      *)

AttrItem(a) == [t |-> "attr", a |-> a]
CloseItem == [t |-> "close", a |-> Leaf("", "zero")]
Items(as) == [i \in 1..Len(as) |-> AttrItem(as[i])]

newJSONEncoder(w, h, buf) ==
    [buf |-> buf, og |-> w.handlers[h].groups, garrs |-> w.garrs,
     hook |-> w.cfgs[w.handlers[h].c].ReplaceAttr,
     st |-> "ok", todo |-> <<>>, own |-> <<>>, path |-> <<>>, pown |-> <<>>,
     ev |-> <<>>]

Put(m, t) == [m EXCEPT !.buf = Append(@, t)]
PutAll(m, ts) == [m EXCEPT !.buf = @ \o ts]
Panic(m) == [m EXCEPT !.st = "panic", !.todo = <<>>]

\* the bytes after which addSeparator writes no comma
NoSeparatorAfter == {LB, P("["), Colon, Comma, Space}

addSeparator(m) ==
    IF Len(m.buf) = 0 THEN m
    ELSE IF m.buf[Len(m.buf)] \in NoSeparatorAfter THEN m
    ELSE Put(m, Comma)

addKey(m, key) == PutAll(addSeparator(m), <<K(key), Colon>>)

\* slog.Level.String for the four named levels the model logs at
LevelString(l) ==
    CASE l = LevelDebug -> "DEBUG"
      [] l = LevelWarn -> "WARN"
      [] l = LevelError -> "ERROR"
      [] OTHER -> "INFO"

\* addValue and addAny: the bytes of a value of each kind
\*   mjOk/mjSp/mjErr/mjBad/mjPanic: a json.Marshaler that returns valid JSON,
\*     valid JSON ending in a space, an error, invalid bytes, or panics
\*   mtOk/mtErr/mtPanic: an encoding.TextMarshaler likewise
\*   anyOk/anyErr: a value for json.Encoder, which succeeds or fails
addError_Abort(m, v) == Panic(m)

\* the inline error string of a value whose encoding failed
addError(m, v) ==
    CASE v = "mjErr"   -> Put(m, E("MarshalJSON error"))
      [] v = "mjBad"   -> Put(m, E(" invalid MarshalJSON output"))
      [] v = "mtErr"   -> Put(m, E("MarshalText error"))
      [] OTHER         -> Put(m, E("json: unsupported type"))

addValue(m, v) ==
    CASE v = "str"     -> Put(m, S("str"))
      [] v = "badutf8" -> Put(m, S("\\ufffd"))
      [] v = "int"     -> Put(m, N("1"))
      [] v = "bool"    -> Put(m, N("true"))
      [] v = "float"   -> Put(m, N("0.5"))
      [] v = "nan"     -> Put(m, B("NaN"))
      [] v = "time"    -> Put(m, S("rfc3339nano"))
      [] v = "time2"   -> Put(m, S("rfc3339nano2"))
      [] v = "nilptr"  -> Put(m, N("null"))
      [] v = "zero"    -> Put(m, N("null"))
      [] v = "INFO"    -> Put(m, S("INFO"))
      [] v = "DEBUG"   -> Put(m, S("DEBUG"))
      [] v = "WARN"    -> Put(m, S("WARN"))
      [] v = "ERROR"   -> Put(m, S("ERROR"))
      [] v = "source"  -> Put(m, S("file:1"))
      [] v = "stack"   -> Put(m, S("stack"))
      [] v = "err"     -> Put(m, S("error"))
      [] v = "mjOk"    -> Put(m, R("raw"))
      [] v = "mjSp"    -> PutAll(m, <<R("raw"), Space>>)
      [] v = "mtOk"    -> Put(m, S("text"))
      [] v = "anyOk"   -> Put(m, R("{}"))
      [] v \in {"mjErr", "mjBad", "mtErr", "anyErr"} -> addError(m, v)
      [] OTHER         -> Panic(m)  \* a marshaler's panic, or "bad kind"

\* enc.openGroups = append(enc.openGroups, name)
pushOpenGroup(m, g) ==
    LET r == AppendG(m.garrs, m.og, g)
    IN [m EXCEPT !.garrs = r.heap, !.og = r.s, !.own = Append(@, g)]

OpenGroup(m, g) == pushOpenGroup(PutAll(addKey(m, g), <<LB>>), g)

CloseGroup(m) ==
    IF m.og.len = 0 THEN m
    ELSE [Put(m, RB) EXCEPT !.og = DropLast(m.og),
                            !.own = IF @ = <<>> THEN @ ELSE SubSeq(@, 1, Len(@) - 1)]

RECURSIVE CloseTimes(_, _)
CloseTimes(m, i) == IF i < 0 THEN m ELSE CloseTimes(CloseGroup(m), i - 1)

CloseGroups_Once(m) == CloseGroup(m)

\* for i := len(enc.openGroups); i >= 0; i-- { enc.CloseGroup() }
CloseGroups(m) == CloseTimes(m, m.og.len)

\* AppendAttr on an attribute taken from the stack; a group's children and its
\* CloseGroup go onto the stack
\* an attribute is written although the hook returned an empty key for it
appendReplaced_NoDrop(m1, a1, hooked) ==
    IF a1.v = "group" THEN m1 ELSE addValue(addKey(m1, a1.k), a1.v)

\* the rest of AppendAttr once the hook has been called: m1 is the encoder,
\* a1 the attribute the hook returned (the attribute itself without a hook)
appendReplaced(m1, a1, hooked) ==
    IF hooked /\ a1.k = "" THEN m1
    ELSE IF a1.k = "" /\ a1.v = "zero" THEN m1
    ELSE IF a1.v = "group"
    THEN LET notEmptyGroupOrKey == Len(a1.g) # 0 /\ a1.k # ""
         IN [(IF notEmptyGroupOrKey THEN OpenGroup(m1, a1.k) ELSE m1)
                EXCEPT !.todo = Items(a1.g)
                                \o (IF notEmptyGroupOrKey THEN <<CloseItem>> ELSE <<>>)
                                \o @]
    ELSE addValue(addKey(m1, a1.k), a1.v)

\* the calls made on a lazily computed value (a slog.LogValuer) are kept in
\* the encoder's ev, in the order the code makes them
Note(m, e) == [m EXCEPT !.ev = Append(@, e)]

\* Value.Resolve: the value the producer returns, the value itself when it is
\* not lazy
Resolve(a) == IF a.v = "lazy" THEN [a.g[1] EXCEPT !.k = a.k] ELSE a

\* the producer runs when Resolve is called on a lazy value
resolveIn(m, a) == IF a.v = "lazy" THEN Note(m, <<"LogValue", a.k>>) ELSE m

\* a.Value.Kind() != slog.KindGroup, a.Value.Resolve() and the call of the
\* hook, in this order
hookCalled(m, a, groups) ==
    IF a.v = "lazy"
    THEN Note(resolveIn(Note([m EXCEPT !.path = groups, !.pown = m.own],
                             <<"Kind", a.k>>), a),
              <<"ReplaceAttr", a.k, Resolve(a).v>>)
    ELSE [m EXCEPT !.path = groups, !.pown = m.own]

\* the second a.Value.Resolve(), on what the hook returned
afterHook(m1, a1) ==
    appendReplaced(IF a1.k = "" THEN m1 ELSE resolveIn(m1, a1), Resolve(a1), TRUE)

AppendAttr(m, a) ==
    LET hooked == m.hook # "nil" /\ a.v # "group"
        groups == View(m.garrs, m.og)
    IN IF hooked
       THEN afterHook(hookCalled(m, a, groups),
                      ReplaceAttr(m.hook, groups, Resolve(a)))
       ELSE appendReplaced(resolveIn(m, a), Resolve(a), FALSE)

\* one attribute, or one pending CloseGroup, off the stack
Step(m) ==
    LET it == Head(m.todo)
        m0 == [m EXCEPT !.todo = Tail(@)]
    IN IF it.t = "close" THEN CloseGroup(m0) ELSE AppendAttr(m0, it.a)

RECURSIVE Run(_)
Run(m) == IF m.todo = <<>> \/ m.st # "ok" THEN m ELSE Run(Step(m))

\* enc.AppendAttr(a) with its recursion run to the end
\* back in the caller: what it had left to do is still to do
return(m, todo) == IF m.st = "ok" THEN [m EXCEPT !.todo = todo] ELSE m

AppendAttrAll(m, a) ==
    IF m.st # "ok" THEN m
    ELSE return(Run([m EXCEPT !.todo = <<AttrItem(a)>>]), m.todo)

RECURSIVE AppendAttrs(_, _)
AppendAttrs(m, as) ==
    IF as = <<>> THEN m ELSE AppendAttrs(AppendAttrAll(m, Head(as)), Tail(as))

\* h.c.TimeFormatter applied to an instant
TimeFormatter(t) == IF t = "time" THEN "formatted" ELSE "formatted2"

\* addTime2Formatter(t)
addTime2Formatter(m, t) == Put(m, S(TimeFormatter(t)))

\* AppendTime once the value the hook returned is resolved: v is its kind
timeValue(m, v) ==
    IF v \in TimeKinds THEN addTime2Formatter(m, "time") ELSE addValue(m, v)

\* the formatter only for the key "time" with no group open, RFC 3339 with
\* nanoseconds otherwise
AppendTime_TopLevelOnly(m, key) ==
    IF key = "time" /\ m.og.len = 0 THEN addTime2Formatter(addKey(m, key), "time")
    ELSE addValue(addKey(m, key), "time")

\* AppendTime(key, t) for the record's time t
AppendTime(m, key) ==
    IF m.hook # "nil"
    THEN LET groups == View(m.garrs, m.og)
             attr == ReplaceAttr(m.hook, groups, Leaf(key, "time"))
             m1 == [m EXCEPT !.path = groups, !.pown = m.own]
         IN IF attr.k = "" THEN m1
            ELSE timeValue(resolveIn(addKey(m1, key), attr), Resolve(attr).v)
    ELSE addTime2Formatter(addKey(m, key), "time")

AppendLevel(m, key, l) ==
    IF m.hook # "nil" THEN AppendAttrAll(m, Leaf(key, LevelString(l)))
    ELSE Put(addKey(m, key), S(LevelString(l)))

\* AppendString, which handler.go calls as AppendMessage
AppendMessage(m, key) ==
    IF m.hook # "nil" THEN AppendAttrAll(m, Leaf(key, "str"))
    ELSE Put(addKey(m, key), S("str"))

AppendSourceFromPC(m, key) ==
    IF m.hook # "nil" THEN AppendAttrAll(m, Leaf(key, "source"))
    ELSE Put(addKey(m, key), S("file:1"))

AppendStacktrace(m, key) ==
    IF m.st # "ok" THEN m
    ELSE IF m.hook # "nil" THEN AppendAttrAll(m, Leaf(key, "stack"))
    ELSE Put(addKey(m, key), S("stack"))

AppendFormatted(m, formatted) ==
    IF Len(formatted) = 0 THEN m ELSE PutAll(addSeparator(m), formatted)

----------------------------------------------------------------------------
(* JSONHandler: derivation.                                                *)

Cfg(w, h) == w.cfgs[w.handlers[h].c]
NewId(w) == Len(w.handlers) + 1

\* what a handler shows of itself: groups, preformatted bytes, configuration
HandlerView(w, h) ==
    [groups |-> View(w.garrs, w.handlers[h].groups),
     pre |-> View(w.barrs, w.handlers[h].pre),
     c |-> Cfg(w, h), isTerm |-> w.handlers[h].isTerm]

\* the encoder of addAttrs/addGroup writes into h.preformattedGroupAttrs itself
PreEncoder(w, h) == newJSONEncoder(w, h, View(w.barrs, w.handlers[h].pre))

\* the bytes the encoder m added to h's preformatted slice, appended to it
WritePre(w, h, m) ==
    LET pre == w.handlers[h].pre
        r == BufferWrite([heap |-> w.barrs, s |-> pre],
                         SubSeq(m.buf, pre.len + 1, Len(m.buf)))
    IN [w EXCEPT !.barrs = r.heap, !.handlers[h].pre = r.s,
                 !.garrs = Collect(m.garrs, Len(w.garrs))]

\* JSONHandler.addAttrs on handler h
addAttrs(w, h, attrs) == WritePre(w, h, AppendAttrs(PreEncoder(w, h), attrs))

\* the group written to the preformatted bytes but not kept in h.groups
addGroup_NoPush(w, h, name) == WritePre(w, h, OpenGroup(PreEncoder(w, h), name))

\* JSONHandler.addGroup on handler h
\* h.groups = append(h.groups, name)
pushGroup(w, h, name) ==
    LET r == AppendG(w.garrs, w.handlers[h].groups, name)
    IN [w EXCEPT !.garrs = r.heap, !.handlers[h].groups = r.s]

addGroup(w, h, name) ==
    pushGroup(WritePre(w, h, OpenGroup(PreEncoder(w, h), name)), h, name)

\* JSONHandler.WithAttrs for a non-empty list; the result is handler NewId(w)
WithAttrs(w, h, attrs) == addAttrs(clone(w, h), NewId(w), attrs)

\* JSONHandler.WithGroup; the result is handler NewId(w)
WithGroup(w, h, name) ==
    IF name = "" THEN clone(w, h) ELSE addGroup(clone(w, h), NewId(w), name)

\* Option.apply on a Config
apply(c, opt) ==
    CASE opt.o = "AddSource" -> [c EXCEPT !.AddSource = opt.b]
      [] opt.o = "Development" -> [c EXCEPT !.Development = opt.b]
      [] opt.o = "StacktraceEnabled" -> [c EXCEPT !.StacktraceEnabled = opt.b]
      [] opt.o = "ReplaceAttr" -> [c EXCEPT !.ReplaceAttr = opt.s]
      [] opt.o = "Level" -> [c EXCEPT !.Level = opt.s]
      [] opt.o = "ContextExtractor" ->
            [c EXCEPT !.ContextExtractors = Append(@, opt.s)]
      [] OTHER -> c

\* JSONHandler.WithOptions with one option; the result is handler NewId(w)
WithOptions(w, h, opt) ==
    LET w1 == clone(w, h)
    IN [w1 EXCEPT !.cfgs[w1.handlers[NewId(w)].c] = apply(@, opt)]

----------------------------------------------------------------------------
(* JSONHandler: Handle.                                                    *)

\* every level is enabled
Enabled_Always(c, level) == TRUE

\* JSONHandler.Enabled
Enabled(c, level) ==
    IF c.Level = <<>> THEN level >= defaultConfig.Level[1] ELSE level >= c.Level[1]

stacktraceEnabled(c, level) == c.StacktraceEnabled /\ level >= c.StacktraceLevel

\* the pc is captured for the source only
CapturePC_SourceOnly(c, level) == c.AddSource

\* JSONHandler.CapturePC
CapturePC(c, level) == c.AddSource \/ stacktraceEnabled(c, level)

RECURSIVE contextAttrsFrom(_)
contextAttrsFrom(exs) ==
    IF exs = <<>> THEN <<>>
    ELSE (IF Head(exs) = "nil" THEN <<>> ELSE Extract(Head(exs)))
         \o contextAttrsFrom(Tail(exs))

\* JSONHandler.contextAttrs: the attributes f is called with, in order
contextAttrs(c) == contextAttrsFrom(c.ContextExtractors)

\* encode up to and including the preformatted attrs; the context's and the
\* record's attributes are left on the encoder's stack
\* the time is written whether or not it is the zero time
encodeTime_Always(m, c, r) == AppendTime(m, c.TimeKey)

encodeTime(m, c, r) == IF r.time # 0 THEN AppendTime(m, c.TimeKey) ELSE m

encodeLevel(m, r) == IF m.st = "ok" THEN AppendLevel(m, "level", r.level) ELSE m

encodeSource(m, c, r) ==
    IF m.st = "ok" /\ c.AddSource /\ r.pc # 0
    THEN AppendSourceFromPC(m, "source") ELSE m

encodeMessage(m) == IF m.st = "ok" THEN AppendMessage(m, "msg") ELSE m

encodePreformatted(m, pre) == IF m.st = "ok" THEN AppendFormatted(m, pre) ELSE m

\* the attributes of the context and of the record, put on the encoder's stack
encodeAttrs(m, as) == IF m.st = "ok" THEN [m EXCEPT !.todo = Items(as)] ELSE m

encodeHead(w, h, r, buf) ==
    LET c == Cfg(w, h)
        m0 == Put(newJSONEncoder(w, h, buf), LB)
        m1 == encodeTime(m0, c, r)
        m2 == encodeLevel(m1, r)
        m3 == encodeSource(m2, c, r)
        m4 == encodeMessage(m3)
        m5 == encodePreformatted(m4, View(w.barrs, w.handlers[h].pre))
    IN encodeAttrs(m5, contextAttrs(c) \o r.attrs)

\* the stack trace written before the groups are closed
encodeStacktrace(m, c, r) ==
    IF m.st = "ok" /\ stacktraceEnabled(c, r.level) /\ r.pc # 0
    THEN AppendStacktrace(m, "stacktrace") ELSE m

encodeCloseGroups(m) == IF m.st = "ok" THEN CloseGroups(m) ELSE m

\* the closing brace and the line ending
encodeEnd(m) == IF m.st = "ok" THEN PutAll(m, <<RB, lineEnding>>) ELSE m

encodeTail_StackFirst(m, c, r) ==
    encodeEnd(encodeCloseGroups(encodeStacktrace(m, c, r)))

\* encode from CloseGroups on
encodeTail(m, c, r) ==
    encodeEnd(encodeStacktrace(encodeCloseGroups(m), c, r))

\* JSONHandler.encode
encode(w, h, r, buf) == encodeTail(Run(encodeHead(w, h, r, buf)), Cfg(w, h), r)

\* textEncoder.addValue of the value the hook returned: text when the hook
\* left the value v alone
textValue(v1, v, text) ==
    IF v1 = v THEN text
    ELSE IF v1 \in TimeKinds THEN TimeFormatter(v1)
    ELSE IF v1 = "int" THEN "1"
    ELSE v1

\* textEncoder.Append of a built-in field of kind v, written as text
TextAppend(m, key, v, text) ==
    IF m.st # "ok" THEN m
    ELSE IF m.hook # "nil" /\ ReplaceAttr(m.hook, <<>>, Leaf(key, v)).k = "" THEN m
    ELSE IF m.hook # "nil"
    THEN Put(m, T(textValue(ReplaceAttr(m.hook, <<>>, Leaf(key, v)).v, v, text)))
    ELSE Put(m, T(text))

\* Buffer.LastByte dereferenced: a nil pointer when the buffer is empty
EndLine(m) ==
    IF m.st # "ok" THEN m
    ELSE IF Len(m.buf) = 0 THEN Panic(m)
    ELSE IF m.buf[Len(m.buf)] # lineEnding THEN Put(m, lineEnding)
    ELSE m

\* JSONHandler.encodeDevelopment
\* time, level, source and message as text, tab-separated
developmentTime(m, c, r) ==
    IF r.time # 0
    THEN Put(TextAppend(m, c.TimeKey, "time", TimeFormatter("time")), T("  ")) ELSE m

developmentLevel(m, r) ==
    TextAppend(m, "level", LevelString(r.level), LevelString(r.level))

developmentSource(m, c, r) ==
    IF c.AddSource /\ r.pc # 0
    THEN TextAppend(Put(m, Tab), "source", "source", "file:1") ELSE m

developmentMessage(m, r) ==
    IF r.msg # "" THEN TextAppend(Put(m, Tab), "msg", "str", r.msg) ELSE m

\* buf.Truncate(size) when only "\t{}" was written after the text
developmentTruncate_Never(m, size) == m

developmentTruncate(m, size) ==
    IF m.st = "ok" /\ Len(m.buf) - size = 3
    THEN [m EXCEPT !.buf = SubSeq(@, 1, size)] ELSE m

developmentClose(m) == IF m.st = "ok" THEN Put(CloseGroups(m), RB) ELSE m

\* the attributes as a JSON object behind the text m
developmentAttrs(m, pre, as) ==
    developmentTruncate(
        developmentClose(
            Run([AppendFormatted(PutAll(m, <<Tab, LB>>), pre) EXCEPT !.todo = Items(as)])),
        Len(m.buf))

developmentStacktrace(m, c, r) ==
    IF stacktraceEnabled(c, r.level) /\ r.pc # 0
    THEN TextAppend(m, "stacktrace", "stack", "stack") ELSE m

encodeDevelopment(w, h, r, buf) ==
    LET c == Cfg(w, h)
        t0 == newJSONEncoder(w, h, buf)
        t1 == developmentTime(t0, c, r)
        t2 == developmentLevel(t1, r)
        t3 == developmentSource(t2, c, r)
        t4 == developmentMessage(t3, r)
        j4 == developmentAttrs(t4, View(w.barrs, w.handlers[h].pre),
                               contextAttrs(c) \o r.attrs)
        j5 == EndLine(j4)
        j6 == developmentStacktrace(j5, c, r)
    IN EndLine(j6)

\* Buffer.Free: the buffer goes back to the pool with length 0
Free(b) == <<>>

\* JSONHandler.Handle on a buffer taken from the pool.  werr: the sink's Write
\* returns an error.  The result: the Write calls made (each the bytes passed),
\* what Handle returned, the buffer as put back, the heap of group arrays.
written(w, m, werr) ==
    [writes |-> IF m.st = "ok" THEN <<m.buf>> ELSE <<>>,
     ret |-> IF m.st # "ok" THEN "panic" ELSE IF werr THEN "err" ELSE "nil",
     werr |-> werr,
     buf |-> Free(m.buf),
     garrs |-> Collect(m.garrs, Len(w.garrs)),
     m |-> m]

Handle(w, h, r, buf, werr) ==
    written(w, IF Cfg(w, h).Development THEN encodeDevelopment(w, h, r, buf)
               ELSE encode(w, h, r, buf), werr)

----------------------------------------------------------------------------
(* Inputs.                                                                 *)

Rec(t, l, pc, msg, as) == [time |-> t, level |-> l, pc |-> pc, msg |-> msg, attrs |-> as]
NoRec == Rec(0, LevelInfo, 0, "", <<>>)

Opt(o, b, x) == [o |-> o, b |-> b, s |-> x]

A1 == Leaf("a", "int")
A2 == Leaf("b", "str")
Nested == Group("s", <<A1, Group("t", <<A2>>)>>)
Inline == Group("", <<A2>>)
EmptyGroup == Group("e", <<>>)

\* kinds whose encoding fails with an error: the marshaler returns one, returns
\* bytes json.Valid rejects, or json.Encoder fails
FailKinds == {"mjErr", "mjBad", "mtErr", "anyErr"}

----------------------------------------------------------------------------
(* Actions.                                                                *)

Install(w) ==
    /\ handlers' = w.handlers
    /\ cfgs' = w.cfgs
    /\ garrs' = w.garrs
    /\ barrs' = w.barrs

Did(op, h, r, writes, ret, werr) ==
    last' = [op |-> op, h |-> h, r |-> r, writes |-> writes, ret |-> ret, werr |-> werr]

\* h.WithGroup(name) for a handler h of the set hs
DoWithGroup(hs, names) ==
    \E h \in hs, name \in names :
        /\ Install(WithGroup(World, h, name))
        /\ Did("WithGroup", NewId(World), NoRec, <<>>, "nil", FALSE)
        /\ UNCHANGED <<pool, rec, procs, sink, enc, levelColorList, call, callers>>

\* h.WithAttrs(attrs): h itself for an empty list; no handler when a marshaler
\* panics while the attributes are formatted
DoWithAttrs(hs, lists) ==
    \E h \in hs, attrs \in lists :
        /\ IF Len(attrs) = 0
           THEN /\ Did("WithAttrs", h, NoRec, <<>>, "nil", FALSE)
                /\ UNCHANGED <<handlers, cfgs, garrs, barrs>>
           ELSE IF AppendAttrs(PreEncoder(clone(World, h), NewId(World)), attrs).st # "ok"
           THEN /\ Did("WithAttrs", h, NoRec, <<>>, "panic", FALSE)
                /\ UNCHANGED <<handlers, cfgs, garrs, barrs>>
           ELSE /\ Install(WithAttrs(World, h, attrs))
                /\ Did("WithAttrs", NewId(World), NoRec, <<>>, "nil", FALSE)
        /\ UNCHANGED <<pool, rec, procs, sink, enc, levelColorList, call, callers>>

\* h.WithOptions(opt)
DoWithOptions(hs, opts) ==
    \E h \in hs, opt \in opts :
        /\ Install(WithOptions(World, h, opt))
        /\ Did("WithOptions", NewId(World), NoRec, <<>>, "nil", FALSE)
        /\ UNCHANGED <<pool, rec, procs, sink, enc, levelColorList, call, callers>>

\* h.Handle(ctx, r) by a single caller: buffer.New, encode, Write, Free
DoHandle(hs, recs, werrs) ==
    \E h \in hs, r \in recs, werr \in werrs :
        \E res \in {Handle(World, h, r, IF pool = <<>> THEN <<>> ELSE Head(pool), werr)} :
           /\ garrs' = res.garrs
           /\ pool' = (IF pool = <<>> THEN <<>> ELSE Tail(pool)) \o <<res.buf>>
           /\ Did("Handle", h, r, res.writes, res.ret, werr)
           /\ UNCHANGED <<handlers, cfgs, barrs, rec, procs, sink, enc, levelColorList, call, callers>>

\* Logger.logAttrs: slog.NewRecord(time, level, msg, pc)
NewRecord(headers) ==
    \E hd \in headers :
        /\ rec' = Rec(hd[1], hd[2], hd[3], hd[4], <<>>)
        /\ Did("NewRecord", 1, NoRec, <<>>, "nil", FALSE)
        /\ UNCHANGED <<handlers, cfgs, garrs, barrs, pool, procs, sink, enc, levelColorList, call, callers>>

\* Logger.logAttrs: r.AddAttrs with one attribute
AddAttrs(attrs) ==
    \E a \in attrs :
        /\ rec' = [rec EXCEPT !.attrs = Append(@, a)]
        /\ Did("AddAttrs", 1, NoRec, <<>>, "nil", FALSE)
        /\ UNCHANGED <<handlers, cfgs, garrs, barrs, pool, procs, sink, enc, levelColorList, call, callers>>

----------------------------------------------------------------------------
(* Spec: handlers derived from one another in any order, each handling     *)
(* records now and then.                                                   *)

\* the goroutines that call Handle concurrently
Goroutines == {"g1", "g2"}

NoEnc ==
    [buf |-> <<>>, og |-> NilSlice, garrs |-> <<>>, hook |-> "nil",
     st |-> "ok", todo |-> <<>>, own |-> <<>>, path |-> <<>>, pown |-> <<>>,
     ev |-> <<>>]

\* the variables of the handlers, which the package-level functions leave alone
hvars == <<handlers, cfgs, garrs, barrs, pool, rec, last, procs, sink, enc>>

Call(fn, arg, out, path) == [fn |-> fn, arg |-> arg, out |-> out, path |-> path]
NoCall == Call("none", <<>>, <<>>, "none")

\* a goroutine that is in no level-colour function: what it called last, the
\* list it builds (new), the list it read (seen) and the lists that were
\* complete when it read (ok)
Caller(pc, fn, arg, new, seen, ok) ==
    [pc |-> pc, fn |-> fn, arg |-> arg, new |-> new, seen |-> seen, ok |-> ok]
NoCallers == [g \in Goroutines |-> Caller("idle", "none", <<>>, <<>>, <<>>, {})]

----------------------------------------------------------------------------
(* Level colours.  An escape is named by its colour.                       *)

lvlEscape(l, escape) == [Level |-> l, string |-> escape]

\* the list UseDefaultLevelColors installs; init() calls it
DefaultLevelColors ==
    <<lvlEscape(LevelError, "red"), lvlEscape(LevelWarn, "yellow"),
      lvlEscape(LevelInfo, "blue"), lvlEscape(LevelDebug, "magenta")>>

\* slices.IndexFunc(list, l >= mode.Level): 0 stands for -1
IndexFunc(list, l) ==
    IF \E i \in DOMAIN list : l >= list[i].Level
    THEN CHOOSE i \in DOMAIN list :
            /\ l >= list[i].Level
            /\ \A j \in 1..(i - 1) : ~(l >= list[j].Level)
    ELSE 0

\* SetLevelColor with the position IndexFunc found
setAt(list, targetPos, newMode) ==
    IF targetPos = 0 THEN Append(list, newMode)
    ELSE IF list[targetPos].Level = newMode.Level
         THEN [list EXCEPT ![targetPos] = newMode]
    ELSE SubSeq(list, 1, targetPos - 1) \o <<newMode>>
            \o SubSeq(list, targetPos, Len(list))

SetLevelColor_Append(list, l, escape) == Append(list, lvlEscape(l, escape))

SetLevelColor(list, l, escape) == setAt(list, IndexFunc(list, l), lvlEscape(l, escape))

\* slog.Level.String: the name of the nearest named level at or below l, DEBUG
\* for all below INFO, and the offset from it
LevelName(l) ==
    IF l < LevelInfo THEN <<"DEBUG", l - LevelDebug>>
    ELSE IF l < LevelWarn THEN <<"INFO", l - LevelInfo>>
    ELSE IF l < LevelError THEN <<"WARN", l - LevelWarn>>
    ELSE <<"ERROR", l - LevelError>>

\* the entry the loop of formatColorLevelValue stops at: the first one with
\* l >= mode.Level, the last one when there is none, the zero value for an
\* empty list
modeAt(list, pos) ==
    IF list = <<>> THEN lvlEscape(0, "")
    ELSE IF pos = 0 THEN list[Len(list)]
    ELSE list[pos]

formatColorLevelValue_Last(list, l) ==
    <<list[Len(list)].string, LevelName(l), "reset">>

formatColorLevelValue(list, l) ==
    <<modeAt(list, IndexFunc(list, l)).string, LevelName(l), "reset">>

\* SetLevelColor(l, escape) for a level and an escape of the sets
DoSetLevelColor(levels, escapes) ==
    \E l \in levels, escape \in escapes :
        /\ levelColorList' = SetLevelColor(levelColorList, l, escape)
        /\ call' = Call("SetLevelColor", <<l, escape>>, <<>>, "none")
        /\ UNCHANGED <<hvars, callers>>

DoUseDefaultLevelColors ==
    /\ levelColorList' = DefaultLevelColors
    /\ call' = Call("UseDefaultLevelColors", <<>>, <<>>, "none")
    /\ UNCHANGED <<hvars, callers>>

\* formatColorLevelValue(buf, l) on an empty buffer
DoFormatColorLevelValue(levels) ==
    \E l \in levels :
        /\ call' = Call("formatColorLevelValue", l,
                        formatColorLevelValue(levelColorList, l), "none")
        /\ UNCHANGED <<hvars, levelColorList, callers>>

IdleProc == [pc |-> "idle", h |-> 1, r |-> NoRec, m |-> NoEnc]

Idle == [op |-> "New", h |-> 1, r |-> NoRec, writes |-> <<>>, ret |-> "nil", werr |-> FALSE]

AllHandlers == 1..Len(handlers)
Newest == {Len(handlers)}

DeriveNames == {"g"}
DeriveAttrs == {<<>>, <<A1>>}
DeriveOpts == {Opt("ContextExtractor", FALSE, "user")}
DeriveRecs == {Rec(1, LevelInfo, 1, "m", <<A1>>),
               Rec(0, LevelError, 0, "m", <<Group("x", <<Leaf("pw", "str")>>), A2>>)}

Init ==
    /\ handlers = NewJSONHandler(defaultConfig).handlers
    /\ cfgs = NewJSONHandler(defaultConfig).cfgs
    /\ garrs = <<>>
    /\ barrs = <<>>
    /\ pool = <<>>
    /\ rec = NoRec
    /\ last = Idle
    /\ procs = [g \in Goroutines |-> IdleProc]
    /\ sink = <<>>
    /\ enc = NoEnc
    /\ levelColorList = DefaultLevelColors
    /\ call = NoCall
    /\ callers = NoCallers

Next ==
    \/ Len(handlers) < MaxHandlers /\ DoWithGroup(AllHandlers, DeriveNames)
    \/ Len(handlers) < MaxHandlers /\ DoWithAttrs(AllHandlers, DeriveAttrs)
    \/ Len(handlers) < MaxHandlers /\ DoWithOptions(AllHandlers, DeriveOpts)
    \/ DoHandle(AllHandlers, DeriveRecs, {FALSE})

Spec == Init /\ [][Next]_vars

----------------------------------------------------------------------------
(* Derivation leaves the handler it starts from, and every other handler,  *)
(* as it was.                                                              *)

NextWorld == [handlers |-> handlers', cfgs |-> cfgs', garrs |-> garrs', barrs |-> barrs']

ViewOf(h) == HandlerView(World, h)
OutputOf(w, h, r) == Handle(w, h, r, <<>>, FALSE).writes

\* a record with a group of its own, to see what a handler writes
ProbeRec == Rec(1, LevelError, 1, "m", <<Group("x", <<Leaf("pw", "str")>>), A2>>)

IsProperPrefix(s, t) == Len(s) < Len(t) /\ SubSeq(t, 1, Len(s)) = s

\* C2: no operation (WithAttrs, WithGroup, WithOptions, Handle) changes the
\* groups, the preformatted bytes or the configuration of a handler that
\* exists already, nor the line such a handler writes for a record.
C2_DerivationLeavesHandlersAlone ==
    [][\A h \in AllHandlers :
          /\ HandlerView(NextWorld, h) = HandlerView(World, h)
          /\ OutputOf(NextWorld, h, ProbeRec) = OutputOf(World, h, ProbeRec)]_vars

\* a handler with preformatted bytes has two different children and then
\* handles a record
C2_Witness ==
    \E h \in AllHandlers, c1 \in AllHandlers, c2 \in AllHandlers :
        /\ ViewOf(h).pre # <<>>
        /\ IsProperPrefix(ViewOf(h).pre, ViewOf(c1).pre)
        /\ IsProperPrefix(ViewOf(h).pre, ViewOf(c2).pre)
        /\ ViewOf(c1).pre # ViewOf(c2).pre
        /\ last.op = "Handle" /\ last.h = h /\ last.ret = "nil"


----------------------------------------------------------------------------
(* SpecEnc: one chain of handlers, the newest of which handles the record  *)
(* the logger has built; the write to the sink succeeds or fails.          *)

EncConfigs ==
    {defaultConfig,
     [defaultConfig EXCEPT !.AddSource = TRUE, !.StacktraceEnabled = TRUE,
                           !.ContextExtractors = <<"nil", "trace", "user">>],
     [defaultConfig EXCEPT !.Development = TRUE, !.StacktraceEnabled = TRUE]}

EncNames == {"g", "h"}
EncBound == {<<A1>>}
EncHeaders == {<<0, LevelInfo, 0, "m">>, <<1, LevelInfo, 1, "m">>,
               <<1, LevelError, 1, "m">>}
EncAttrs == {A2, Nested, Inline, Leaf("boom", "mjPanic")}

InitEnc ==
    /\ \E config \in EncConfigs :
        /\ handlers = NewJSONHandler(config).handlers
        /\ cfgs = NewJSONHandler(config).cfgs
    /\ garrs = <<>>
    /\ barrs = <<>>
    /\ pool = <<>>
    /\ rec = NoRec
    /\ last = Idle
    /\ procs = [g \in Goroutines |-> IdleProc]
    /\ sink = <<>>
    /\ enc = NoEnc
    /\ levelColorList = DefaultLevelColors
    /\ call = NoCall
    /\ callers = NoCallers

NextEnc ==
    \/ Len(handlers) < MaxChain /\ DoWithGroup(Newest, EncNames)
    \/ Len(handlers) < MaxChain /\ DoWithAttrs(Newest, EncBound)
    \/ NewRecord(EncHeaders)
    \/ Len(rec.attrs) < MaxAttrs /\ AddAttrs(EncAttrs)
    \/ DoHandle(Newest, {rec}, BOOLEAN)

SpecEnc == InitEnc /\ [][NextEnc]_vars

----------------------------------------------------------------------------
(* SpecVal: as SpecEnc, with attribute values of every kind that can go    *)
(* wrong, bound to the handler or carried by the record.                   *)

ValNames == {"g"}
ValBound == {<<Leaf("w", "mjErr"), Leaf("n", "nan")>>}
ValHeaders == {<<0, LevelInfo, 0, "m">>}
ValAttrs ==
    {A1, EmptyGroup, Group("grp", <<Leaf("bad", "mtErr")>>)}
    \cup {Leaf("bad", k) : k \in FailKinds}
    \cup {Leaf("v", k) : k \in {"badutf8", "nilptr", "nan", "mjSp", "mjPanic", "mtPanic"}}

NextVal ==
    \/ Len(handlers) < MaxChain /\ DoWithGroup(Newest, ValNames)
    \/ Len(handlers) < MaxChain /\ DoWithAttrs(Newest, ValBound)
    \/ NewRecord(ValHeaders)
    \/ Len(rec.attrs) < MaxAttrs /\ AddAttrs(ValAttrs)
    \/ DoHandle(Newest, {rec}, {FALSE})

SpecVal == Init /\ [][NextVal]_vars

----------------------------------------------------------------------------
(* Reading a line back.                                                    *)

IsKey(t) == t[1] = "k"
IsValue(t) == t[1] \in {"s", "e", "n", "r"}
IsError(t) == t[1] = "e"

\* JSON allows white space between tokens
NoSpace(ts) == SelectSeq(ts, LAMBDA t : t # Space)

\* a recursive-descent parse of ts[i..] as the rest of a JSON object at nesting
\* depth d, followed by one newline; st is what the grammar expects next
RECURSIVE ValidFrom(_, _, _, _)
ValidFrom(ts, i, st, d) ==
    IF i > Len(ts) THEN FALSE
    ELSE LET t == ts[i]
             close == IF d = 1 THEN ValidFrom(ts, i + 1, "end", 0)
                      ELSE ValidFrom(ts, i + 1, "after", d - 1)
         IN CASE st = "end"   -> i = Len(ts) /\ t = lineEnding
              [] st = "first" -> IF IsKey(t) THEN ValidFrom(ts, i + 1, "colon", d)
                                 ELSE t = RB /\ close
              [] st = "key"   -> IsKey(t) /\ ValidFrom(ts, i + 1, "colon", d)
              [] st = "colon" -> t = Colon /\ ValidFrom(ts, i + 1, "value", d)
              [] st = "value" -> IF t = LB THEN ValidFrom(ts, i + 1, "first", d + 1)
                                 ELSE IsValue(t) /\ ValidFrom(ts, i + 1, "after", d)
              [] OTHER        -> IF t = Comma THEN ValidFrom(ts, i + 1, "key", d)
                                 ELSE t = RB /\ close

\* the bytes are one syntactically valid JSON object followed by a newline
ValidJSONLine(line) ==
    LET ts == NoSpace(line)
    IN Len(ts) >= 3 /\ ts[1] = LB /\ ValidFrom(ts, 2, "first", 1)

\* the keys of a line, in the order they appear
RECURSIVE KeysIn(_)
KeysIn(ts) ==
    IF ts = <<>> THEN <<>>
    ELSE (IF IsKey(Head(ts)) THEN <<Head(ts)[2]>> ELSE <<>>) \o KeysIn(Tail(ts))

Count(ts, t) == Cardinality({i \in 1..Len(ts) : ts[i] = t})
CountErrors(ts) == Cardinality({i \in 1..Len(ts) : IsError(ts[i])})

\* for every token of ts, the keys of the groups open in front of it
RECURSIVE PathsFrom(_, _, _, _)
PathsFrom(ts, i, open, acc) ==
    IF i > Len(ts) THEN acc
    ELSE LET t == ts[i]
             next == IF t = LB /\ i > 2 THEN Append(open, ts[i - 2][2])
                     ELSE IF t = RB /\ open # <<>> THEN SubSeq(open, 1, Len(open) - 1)
                     ELSE open
         IN PathsFrom(ts, i + 1, next, Append(acc, open))

Paths(ts) == PathsFrom(ts, 1, <<>>, <<>>)

\* the groups still open at the end of ts
OpenAfter(ts) == Paths(ts \o <<lineEnding>>)[Len(ts) + 1]

IsPrefix(s, t) == Len(s) <= Len(t) /\ SubSeq(t, 1, Len(s)) = s

\* the kinds of the values of a list of attributes, groups included
RECURSIVE KindsOf(_)
KindsOf(as) ==
    IF as = <<>> THEN {}
    ELSE (IF Head(as).v = "group" THEN KindsOf(Head(as).g) ELSE {Head(as).v})
         \cup KindsOf(Tail(as))

\* the keys a list of attributes is expected to put on the line: a group's key
\* and then its members', the members alone of a group without key, nothing
\* for a group without members or an attribute the hook drops
RECURSIVE KeysOf(_, _)
KeysOf(as, hook) ==
    IF as = <<>> THEN <<>>
    ELSE LET a == Head(as)
             ks == IF a.v = "group"
                   THEN IF a.g = <<>> THEN <<>>
                        ELSE IF a.k = "" THEN KeysOf(a.g, hook)
                        ELSE <<a.k>> \o KeysOf(a.g, hook)
                   ELSE IF hook # "nil" /\ ReplaceAttr(hook, <<>>, a).k = "" THEN <<>>
                   ELSE <<a.k>>
         IN ks \o KeysOf(Tail(as), hook)

\* the attributes of the context extractors, in list order
RECURSIVE Extracted(_)
Extracted(exs) ==
    IF exs = <<>> THEN <<>> ELSE Extract(Head(exs)) \o Extracted(Tail(exs))

\* the last Handle call, in JSON mode, wrote a line
Emitted ==
    /\ last.op = "Handle"
    /\ last.writes # <<>>
    /\ ~Cfg(World, last.h).Development

Line == last.writes[1]
LastGroups == View(garrs, handlers[last.h].groups)
LastPre == View(barrs, handlers[last.h].pre)
HasSource == Cfg(World, last.h).AddSource /\ last.r.pc # 0
HasStack == stacktraceEnabled(Cfg(World, last.h), last.r.level) /\ last.r.pc # 0
BuiltIns ==
    (IF last.r.time # 0 THEN <<"time">> ELSE <<>>) \o <<"level">>
    \o (IF HasSource THEN <<"source">> ELSE <<>>) \o <<"msg">>
\* the bytes of the built-in fields: the brace, then key, colon, value, comma each
HeadLen == 4 * Len(BuiltIns)
StackPart == IF HasStack THEN <<Comma, K("stacktrace"), Colon, S("stack")>> ELSE <<>>
Closing == [i \in 1..Len(LastGroups) |-> RB] \o StackPart \o <<RB, lineEnding>>

----------------------------------------------------------------------------
(* Claims about one Handle call.                                           *)

\* C4: a Handle call makes exactly one Write, returns the error of that Write
\* and nothing else, and leaves no bytes in a buffer for a later call.
C4_ExactlyOneWrite ==
    last.op = "Handle" =>
        /\ Len(last.writes) = 1
        /\ last.ret = (IF last.werr THEN "err" ELSE "nil")
        /\ \A i \in 1..Len(pool) : pool[i] = <<>>

\* C5: in JSON mode every line Handle writes is one syntactically valid JSON
\* object followed by a newline.
C5_LineIsValidJSON == Emitted => ValidJSONLine(Line)

\* the record with every failing value replaced by a healthy one
RECURSIVE Heal(_)
Heal(as) ==
    IF as = <<>> THEN <<>>
    ELSE LET a == Head(as)
         IN <<IF a.v = "group" THEN [a EXCEPT !.g = Heal(a.g)]
              ELSE IF a.v \in FailKinds THEN [a EXCEPT !.v = "int"]
              ELSE a>> \o Heal(Tail(as))

HealLine(ts) == [i \in 1..Len(ts) |-> IF IsError(ts[i]) THEN N("1") ELSE ts[i]]

\* how many values of a list of attributes fail to encode
RECURSIVE Failing(_)
Failing(as) ==
    IF as = <<>> THEN 0
    ELSE (IF Head(as).v = "group" THEN Failing(Head(as).g)
          ELSE IF Head(as).v \in FailKinds THEN 1 ELSE 0) + Failing(Tail(as))

\* C6: a value whose encoding fails with an error costs the record nothing but
\* that value: Handle returns what it returns for the same record with healthy
\* values, the line is the same line with a string starting with !ERROR: where
\* the failing value stands, under its key.
C6_FailureIsContained ==
    last.op = "Handle" =>
        LET healed == [last.r EXCEPT !.attrs = Heal(@)]
            res == Handle(World, last.h, healed, <<>>, last.werr)
        IN /\ last.ret = res.ret
           /\ Len(last.writes) = Len(res.writes)
           /\ last.writes # <<>> =>
                /\ HealLine(Line) = HealLine(res.writes[1])
                /\ CountErrors(Line) = CountErrors(res.writes[1]) + Failing(last.r.attrs)
                /\ \A i \in 1..Len(Line) :
                      IsError(Line[i]) => i > 2 /\ Line[i - 1] = Colon /\ IsKey(Line[i - 2])

\* a record whose first attribute fails to encode and whose second does not is
\* handled without error
C6_Witness ==
    /\ last.op = "Handle" /\ last.ret = "nil"
    /\ Len(last.r.attrs) = 2
    /\ last.r.attrs[1].v \in FailKinds
    /\ last.r.attrs[2] = A1
    /\ CountErrors(Line) >= 1

\* C7: a panic in a MarshalJSON or MarshalText function does not leave Handle:
\* the call returns and has written a line with the error string in it.
C7_PanicIsCaught ==
    (last.op = "Handle" /\ KindsOf(last.r.attrs) \cap PanicKinds # {}) =>
        /\ last.ret # "panic"
        /\ Len(last.writes) = 1
        /\ CountErrors(Line) >= 1

\* C8: the keys of a line are the built-in ones, the preformatted ones, the
\* context extractors' in list order and the record's in record order, then the
\* stack trace; the preformatted bytes stand verbatim behind the message; the
\* line ends with the handler groups' closing braces, the stack trace, the
\* closing brace and the newline.
C8_FieldOrder ==
    Emitted =>
        LET c == Cfg(World, last.h)
        IN /\ KeysIn(Line) =
                BuiltIns \o KeysIn(LastPre)
                \o KeysOf(Extracted(c.ContextExtractors), c.ReplaceAttr)
                \o KeysOf(last.r.attrs, c.ReplaceAttr)
                \o (IF HasStack THEN <<"stacktrace">> ELSE <<>>)
           /\ SubSeq(Line, 1, HeadLen) \in Seq({LB, Comma, Colon} \cup
                 {K(k) : k \in {"time", "level", "source", "msg"}} \cup
                 {S(v) : v \in {"formatted", "INFO", "ERROR", "file:1", "str"}})
           /\ LastPre # <<>> =>
                SubSeq(Line, HeadLen + 1, HeadLen + 1 + Len(LastPre)) = <<Comma>> \o LastPre
           /\ Len(Line) >= HeadLen + Len(Closing)
           /\ SubSeq(Line, Len(Line) - Len(Closing) + 1, Len(Line)) = Closing

\* a handler with a group, bound attributes and context extractors writes a
\* record with time, source, attributes and stack trace
C8_Witness ==
    /\ Emitted
    /\ LastGroups # <<>> /\ KeysIn(LastPre) # LastGroups
    /\ Cfg(World, last.h).ContextExtractors # <<>>
    /\ last.r.time # 0 /\ HasSource /\ HasStack
    /\ Len(last.r.attrs) = 2 /\ last.r.attrs[1] # last.r.attrs[2]

----------------------------------------------------------------------------
(* SpecConc: two goroutines call Handle on handlers of one WithGroup chain *)
(* at the same time.  A call advances one attribute at a time; the group   *)
(* arrays are one heap that every encoder reads and writes.  The sink is   *)
(* an io.Writer that is not safe for concurrent use: Write copies the      *)
(* bytes it is given in two steps, and handler.go takes no lock around it. *)

Live(m) == [m EXCEPT !.garrs = garrs]
Stale(m) == [m EXCEPT !.garrs = <<>>]

ConcNames == {"g"}
ConcRecs == {Rec(0, LevelInfo, 0, "m", <<Group("x", <<A1>>)>>),
             Rec(0, LevelInfo, 0, "m", <<Group("y", <<A2>>), A1>>)}

\* Handle up to the first attribute: buffer.New, newJSONEncoder, the built-ins
ConcBegin(g) ==
    /\ procs[g].pc = "idle"
    /\ \E h \in Newest, r \in ConcRecs :
        \E m \in {encodeHead(World, h, r, IF pool = <<>> THEN <<>> ELSE Head(pool))} :
           /\ ~Cfg(World, h).Development
           /\ procs' = [procs EXCEPT ![g] = [pc |-> "enc", h |-> h, r |-> r, m |-> Stale(m)]]
           /\ garrs' = m.garrs
           /\ pool' = IF pool = <<>> THEN <<>> ELSE Tail(pool)
    /\ UNCHANGED <<handlers, cfgs, barrs, rec, last, sink, enc, levelColorList, call, callers>>

\* the next AppendAttr, or the CloseGroup that ends a group
ConcStep(g) ==
    /\ procs[g].pc = "enc"
    /\ procs[g].m.todo # <<>>
    /\ \E m \in {Step(Live(procs[g].m))} :
          /\ procs' = [procs EXCEPT ![g].m = Stale(m)]
          /\ garrs' = m.garrs
    /\ UNCHANGED <<handlers, cfgs, barrs, pool, rec, last, sink, enc, levelColorList, call, callers>>

\* CloseGroups, the stack trace, the closing brace and the newline
ConcFinish(g) ==
    /\ procs[g].pc = "enc"
    /\ procs[g].m.todo = <<>>
    /\ \E m \in {encodeTail(Live(procs[g].m), Cfg(World, procs[g].h), procs[g].r)} :
          /\ procs' = [procs EXCEPT ![g].m = Stale(m), ![g].pc = "write"]
          /\ garrs' = m.garrs
    /\ UNCHANGED <<handlers, cfgs, barrs, pool, rec, last, sink, enc, levelColorList, call, callers>>

Half(bytes) == Len(bytes) \div 2

\* h.c.Writer.Write(buf.Bytes()) begins: the sink takes the first bytes
ConcWrite(g) ==
    /\ procs[g].pc = "write"
    /\ sink' = Append(sink, [g |-> g, end |-> FALSE,
                             bytes |-> SubSeq(procs[g].m.buf, 1, Half(procs[g].m.buf))])
    /\ procs' = [procs EXCEPT ![g].pc = "writing"]
    /\ UNCHANGED <<handlers, cfgs, garrs, barrs, pool, rec, last, enc, levelColorList, call, callers>>

\* Write takes the rest and returns; Handle returns and frees the buffer
ConcWritten(g) ==
    /\ procs[g].pc = "writing"
    /\ LET bytes == procs[g].m.buf
       IN /\ sink' = Append(sink, [g |-> g, end |-> TRUE,
                                   bytes |-> SubSeq(bytes, Half(bytes) + 1, Len(bytes))])
          /\ Did("Handle", procs[g].h, procs[g].r, <<bytes>>, "nil", FALSE)
          /\ pool' = Append(pool, Free(bytes))
    /\ procs' = [procs EXCEPT ![g].pc = "done"]
    /\ UNCHANGED <<handlers, cfgs, garrs, barrs, rec, enc, levelColorList, call, callers>>

InitConc ==
    /\ handlers = NewJSONHandler([defaultConfig EXCEPT !.ReplaceAttr = "id"]).handlers
    /\ cfgs = NewJSONHandler([defaultConfig EXCEPT !.ReplaceAttr = "id"]).cfgs
    /\ garrs = <<>>
    /\ barrs = <<>>
    /\ pool = <<>>
    /\ rec = NoRec
    /\ last = Idle
    /\ procs = [g \in Goroutines |-> IdleProc]
    /\ sink = <<>>
    /\ enc = NoEnc
    /\ levelColorList = DefaultLevelColors
    /\ call = NoCall
    /\ callers = NoCallers

NextConc ==
    \/ Len(handlers) < MaxHandlers /\ DoWithGroup(Newest, ConcNames)
    \/ \E g \in Goroutines : ConcBegin(g)
    \/ \E g \in Goroutines : ConcStep(g)
    \/ \E g \in Goroutines : ConcFinish(g)
    \/ \E g \in Goroutines : ConcWrite(g)
    \/ \E g \in Goroutines : ConcWritten(g)

SpecConc == InitConc /\ [][NextConc]_vars

\* C1: a line once begun in the sink is completed before another goroutine's
\* bytes arrive: lines of concurrent Handle calls never interleave.
C1_LinesNeverInterleave ==
    \A i \in 1..Len(sink) - 1 : ~sink[i].end => sink[i + 1].g = sink[i].g

\* C3: the group path a call hands to the ReplaceAttr hook is the handler's
\* WithGroup names followed by the groups this very call has open.
C3_HookPathIsOwn ==
    \A g \in Goroutines :
        procs[g].pc # "idle" =>
            procs[g].m.path =
                View(garrs, handlers[procs[g].h].groups) \o procs[g].m.pown


----------------------------------------------------------------------------
(* SpecGroups: a WithGroup chain is derived; then encoders are made for    *)
(* its handlers, one after the other, and OpenGroup, CloseGroup and        *)
(* CloseGroups are called on each in any order.                            *)

\* the '{' written by OpenGroup: each stands behind its key and colon
GroupOpens(ts) == Cardinality({i \in 2..Len(ts) : ts[i] = LB /\ ts[i - 1] = Colon})

\* the newest group array a handler holds
RECURSIVE LastHeld(_)
LastHeld(hs) ==
    IF hs = <<>> THEN 0 ELSE Max(Head(hs).groups.a, LastHeld(Tail(hs)))

\* newJSONEncoder(h, buf) on a fresh buffer, then the brace and
\* AppendFormatted(h.preformattedGroupAttrs) as encode does; the arrays of the
\* encoder dropped are garbage
EncNew ==
    \E h \in AllHandlers :
        /\ enc' = Stale(AppendFormatted(Put(newJSONEncoder(World, h, <<>>), LB),
                                        View(barrs, handlers[h].pre)))
        /\ garrs' = Collect(garrs, LastHeld(handlers))
        /\ Did("newJSONEncoder", h, NoRec, <<>>, "nil", FALSE)
        /\ UNCHANGED <<handlers, cfgs, barrs, pool, rec, procs, sink, levelColorList, call, callers>>

EncDo(op, m) ==
    /\ enc' = Stale(m)
    /\ garrs' = m.garrs
    /\ Did(op, last.h, NoRec, <<>>, "nil", FALSE)
    /\ UNCHANGED <<handlers, cfgs, barrs, pool, rec, procs, sink, levelColorList, call, callers>>

EncOpenGroup ==
    /\ GroupOpens(enc.buf) < MaxOpens
    /\ \E name \in {"x"} : EncDo("OpenGroup", OpenGroup(Live(enc), name))

EncCloseGroup == EncDo("CloseGroup", CloseGroup(Live(enc)))

EncCloseGroups == EncDo("CloseGroups", CloseGroups(Live(enc)))

NextGroups ==
    \/ Len(handlers) < MaxChain /\ enc = NoEnc /\ DoWithGroup(Newest, {"g"})
    \/ EncNew
    \/ EncOpenGroup
    \/ EncCloseGroup
    \/ EncCloseGroups

SpecGroups == Init /\ [][NextGroups]_vars

\* C10: the '{' that OpenGroup has written and the '}' that CloseGroup and
\* CloseGroups have written differ by the number of open groups at all times;
\* after CloseGroups no group is open, so the two numbers are equal; and a
\* CloseGroup or CloseGroups with no group open changes neither the buffer nor
\* any other state of the encoder.
C10_OpenCloseBalance ==
    /\ [](GroupOpens(enc.buf) - Count(enc.buf, RB) = enc.og.len)
    /\ [](last.op = "CloseGroups" =>
            enc.og.len = 0 /\ GroupOpens(enc.buf) = Count(enc.buf, RB))
    /\ [][(enc.og.len = 0 /\ last'.op \in {"CloseGroup", "CloseGroups"}) =>
            (enc' = enc /\ garrs' = garrs)]_vars

\* CloseGroups has closed several groups, one of them a handler's, after a
\* CloseGroup had closed another
C10_Witness ==
    /\ last.op = "CloseGroups"
    /\ Len(enc.buf) > 0 /\ enc.buf[1] = LB /\ Len(View(garrs, handlers[last.h].groups)) > 0
    /\ GroupOpens(enc.buf) = 3
    /\ \E i \in 1..Len(enc.buf) - 1 : enc.buf[i] = RB /\ enc.buf[i + 1] = Comma
    /\ enc.buf[Len(enc.buf) - 1] = RB /\ enc.buf[Len(enc.buf)] = RB

----------------------------------------------------------------------------
(* Separators.                                                             *)

\* every key stands behind an opening brace or one comma, every comma behind a
\* complete field and in front of a key
WellSeparated(line) ==
    LET ts == NoSpace(line)
    IN \A i \in 2..Len(ts) :
        /\ IsKey(ts[i]) => ts[i - 1] \in {LB, Comma}
        /\ ts[i] = Comma =>
            /\ ts[i - 1] \notin {LB, Comma, Colon}
            /\ i < Len(ts) /\ IsKey(ts[i + 1])

\* C11: in every JSON line written, a key stands right behind the opening
\* brace of its object or behind exactly one comma, and a comma stands behind
\* a complete field and in front of a key: none behind an opening brace, none
\* in front of a closing brace, never two in a row; white space aside.
C11_OneCommaBetweenFields == Emitted => WellSeparated(Line)

----------------------------------------------------------------------------
(* SpecHook: as SpecEnc, in JSON mode with a ReplaceAttr hook configured;  *)
(* the attribute pw is bound to handlers and carried by records, at the    *)
(* top and inside groups.                                                  *)

Hooks == {"drop", "dropTime", "dropAll", "rename", "retime", "untime"}

PW == Leaf("pw", "bool")
A3 == Leaf("c", "float")

HookConfigs ==
    {[defaultConfig EXCEPT !.ReplaceAttr = hook, !.AddSource = TRUE,
                           !.StacktraceEnabled = TRUE] : hook \in Hooks \cup {"nil"}}
HookNames == {"g"}
HookBound == {<<PW, A1>>}
HookHeaders == {<<0, LevelInfo, 0, "m">>, <<1, LevelInfo, 1, "m">>,
                <<1, LevelError, 1, "m">>}
HookAttrs == {A3, PW, Group("s", <<A1, PW>>), Group("s", <<Group("t", <<PW>>)>>)}

InitHook ==
    /\ \E config \in HookConfigs :
        /\ handlers = NewJSONHandler(config).handlers
        /\ cfgs = NewJSONHandler(config).cfgs
    /\ garrs = <<>>
    /\ barrs = <<>>
    /\ pool = <<>>
    /\ rec = NoRec
    /\ last = Idle
    /\ procs = [g \in Goroutines |-> IdleProc]
    /\ sink = <<>>
    /\ enc = NoEnc
    /\ levelColorList = DefaultLevelColors
    /\ call = NoCall
    /\ callers = NoCallers

NextHook ==
    \/ Len(handlers) < MaxChain /\ DoWithGroup(Newest, HookNames)
    \/ Len(handlers) < MaxChain /\ DoWithAttrs(Newest, HookBound)
    \/ NewRecord(HookHeaders)
    \/ Len(rec.attrs) < MaxAttrs /\ AddAttrs(HookAttrs)
    \/ DoHandle(Newest, {rec}, {FALSE})

SpecHook == InitHook /\ [][NextHook]_vars

LastHook == Cfg(World, last.h).ReplaceAttr

\* the keys for which the hook of the last call returns an empty key
Dropped == {k \in BuiltInKeys \cup {"pw"} : ReplaceAttr(LastHook, <<>>, Leaf(k, "str")).k = ""}

\* the value each built-in field and pw would show
ValueOf(k) ==
    CASE k = "time" -> S(TimeFormatter("time"))
      [] k = "level" -> S(LevelString(last.r.level))
      [] k = "source" -> S("file:1")
      [] k = "msg" -> S("str")
      [] k = "stacktrace" -> S("stack")
      [] OTHER -> N("true")

Has(ts, t) == \E i \in 1..Len(ts) : ts[i] = t

\* an attribute of the list, at any depth, has the key k
RECURSIVE Carries(_, _)
Carries(as, k) ==
    as # <<>> /\ \/ Head(as).k = k /\ Head(as).v # "group"
                 \/ Head(as).v = "group" /\ Carries(Head(as).g, k)
                 \/ Carries(Tail(as), k)

\* an attribute with the key k sits inside a group inside a group
NestedTwice(as, k) ==
    \E i \in 1..Len(as) : as[i].v = "group" /\
        \E j \in 1..Len(as[i].g) : as[i].g[j].v = "group" /\ Carries(as[i].g[j].g, k)

\* C12: when the hook returns an empty key for an attribute, the line holds
\* neither the attribute's key nor its value, be the attribute a built-in
\* field, bound to the handler, at the top of the record or inside groups, and
\* the fields of the line are still separated and the line is valid JSON.
C12_DroppedIsAbsent ==
    Emitted =>
        /\ \A k \in Dropped : ~Has(Line, K(k)) /\ ~Has(Line, ValueOf(k))
        /\ WellSeparated(Line)
        /\ ValidJSONLine(Line)

\* pw was dropped from the bound attributes, from the top of the record and
\* from a group inside a group, and with it every built-in field
C12_Witness ==
    /\ Emitted
    /\ Dropped = BuiltInKeys \cup {"pw"}
    /\ last.r.time # 0 /\ HasSource /\ HasStack
    /\ Has(LastPre, K("a")) /\ ~Has(LastPre, K("pw"))
    /\ Carries(last.r.attrs, "pw")
    /\ NestedTwice(last.r.attrs, "pw")
    /\ \E i \in 1..Len(last.r.attrs) : last.r.attrs[i] = PW
    /\ Has(Line, K("s"))

\* the attribute the hook of the last call returns for the record's time
ReturnedTime == ReplaceAttr(LastHook, LastGroups, Leaf("time", "time"))

\* C13: with a hook configured, the time field of a line is the attribute the
\* hook returned: under the returned key stands the returned instant as the
\* time formatter renders it when the returned value is still a time, and
\* the returned value as addValue encodes it otherwise.
C13_TimeIsTheReturnedAttr ==
    (Emitted /\ last.r.time # 0 /\ LastHook # "nil" /\ ReturnedTime.k # "") =>
        /\ Line[2] = K(ReturnedTime.k)
        /\ Line[3] = Colon
        /\ Line[4] = (IF ReturnedTime.v \in TimeKinds
                      THEN S(TimeFormatter(ReturnedTime.v))
                      ELSE addValue(NoEnc, ReturnedTime.v).buf[1])

\* the line starts with the built-in time field
HasTimeField == Line[2] = K("time")

\* C14 as stated: in JSON mode the line of a record has a time field exactly
\* when the record's timestamp is not zero.
C14_TimeFieldIffNonZero == Emitted => (HasTimeField <=> last.r.time # 0)

\* C14: in JSON mode the line of a record with a zero timestamp has no time
\* field, and the line of a record with a non-zero timestamp has one unless
\* the ReplaceAttr hook returns an empty key for the time attribute.
C14_TimeFieldUnlessDropped ==
    Emitted => (HasTimeField <=> (last.r.time # 0 /\ "time" \notin Dropped))

\* a handler with groups and a hook that keeps the time has written the time
\* of a record in front of everything else
C14_Witness ==
    /\ Emitted
    /\ last.r.time # 0
    /\ LastHook = "untime"
    /\ LastGroups # <<>>
    /\ HasTimeField
    /\ last.r.attrs # <<>>

----------------------------------------------------------------------------
(* Logger.  A Logger is the handler it holds.                              *)

Method(name, via, lvl) == [name |-> name, via |-> via, lvl |-> lvl]

\* the logging methods: the function each calls, and the level it passes
\* (<<>> when the level is the caller's)
LoggerMethods ==
    {Method("Log", "log", <<>>), Method("LogAttrs", "logAttrs", <<>>),
     Method("Debug", "log", <<LevelDebug>>), Method("Debugf", "logf", <<LevelDebug>>),
     Method("DebugContext", "log", <<LevelDebug>>),
     Method("DebugContextf", "logf", <<LevelDebug>>),
     Method("Info", "log", <<LevelInfo>>), Method("Infof", "logf", <<LevelInfo>>),
     Method("InfoContext", "log", <<LevelInfo>>),
     Method("InfoContextf", "logf", <<LevelInfo>>),
     Method("Warn", "log", <<LevelWarn>>), Method("Warnf", "logf", <<LevelWarn>>),
     Method("WarnContext", "log", <<LevelWarn>>),
     Method("WarnContextf", "logf", <<LevelWarn>>),
     Method("Error", "log", <<LevelError>>), Method("Errorf", "logf", <<LevelError>>),
     Method("ErrorContext", "log", <<LevelError>>),
     Method("ErrorContextf", "logf", <<LevelError>>)}

LoggerOps == {me.name : me \in LoggerMethods}

\* bufferPool.Get on the pool p: the buffer handed out and what the pool keeps
Get(p) == IF p = <<>> THEN [buf |-> <<>>, rest |-> <<>>]
          ELSE [buf |-> Head(p), rest |-> Tail(p)]

\* Logger.log and Logger.logAttrs once the level is enabled: the record is built
\* and handled; the error Handle returns is dropped
logEnabled(name, h, level, args) ==
    \E r \in {Rec(1, level, IF CapturePC(Cfg(World, h), level) THEN 1 ELSE 0, "m", args)} :
    \E res \in {Handle(World, h, r, Get(pool).buf, FALSE)} :
        /\ garrs' = res.garrs
        /\ pool' = Get(pool).rest \o <<res.buf>>
        /\ Did(name, h, r, res.writes, res.ret, FALSE)

\* Logger.logf once the level is enabled: the message is formatted into a
\* buffer of its own, which is freed after log has returned
logfEnabled(name, h, level) ==
    \E r \in {Rec(1, level, IF CapturePC(Cfg(World, h), level) THEN 1 ELSE 0, "m", <<>>)} :
    \E res \in {Handle(World, h, r, Get(Get(pool).rest).buf, FALSE)} :
        /\ garrs' = res.garrs
        /\ pool' = Get(Get(pool).rest).rest \o <<res.buf>> \o <<Free(<<T("m")>>)>>
        /\ Did(name, h, r, res.writes, res.ret, FALSE)

\* a call of a logging method on the Logger of a handler of hs; a call that is
\* not enabled returns at once: no record, no Handle ("none")
DoLog(hs, levels, argss) ==
    \E h \in hs, me \in LoggerMethods, lv \in levels, args \in argss :
        LET level == IF me.lvl = <<>> THEN lv ELSE me.lvl[1]
        IN /\ me.lvl # <<>> => lv = me.lvl[1]
           /\ me.via = "logf" => args = <<>>
           /\ IF ~Enabled(Cfg(World, h), level)
              THEN /\ Did(me.name, h, [NoRec EXCEPT !.level = level], <<>>, "none", FALSE)
                   /\ UNCHANGED <<garrs, pool>>
              ELSE IF me.via = "logf" THEN logfEnabled(me.name, h, level)
              ELSE logEnabled(me.name, h, level, args)
           /\ UNCHANGED <<handlers, cfgs, barrs, rec, procs, sink, enc, levelColorList, call, callers>>

----------------------------------------------------------------------------
(* SpecLog: Loggers over a chain of handlers with different minimum levels *)
(* log at every level through every method.                                *)

LogConfigs ==
    {[defaultConfig EXCEPT !.Level = <<>>],
     [defaultConfig EXCEPT !.Level = <<LevelDebug>>],
     [defaultConfig EXCEPT !.Level = <<LevelWarn>>, !.AddSource = TRUE]}
LogOpts == {Opt("Level", FALSE, <<LevelError>>), Opt("Level", FALSE, <<>>)}
LogLevels == {LevelDebug, LevelInfo, LevelWarn, LevelError}
LogArgs == {<<>>, <<A1>>}

InitLog ==
    /\ \E config \in LogConfigs :
        /\ handlers = NewJSONHandler(config).handlers
        /\ cfgs = NewJSONHandler(config).cfgs
    /\ garrs = <<>>
    /\ barrs = <<>>
    /\ pool = <<>>
    /\ rec = NoRec
    /\ last = Idle
    /\ procs = [g \in Goroutines |-> IdleProc]
    /\ sink = <<>>
    /\ enc = NoEnc
    /\ levelColorList = DefaultLevelColors
    /\ call = NoCall
    /\ callers = NoCallers

NextLog ==
    \/ Len(handlers) < MaxChain /\ DoWithOptions(Newest, LogOpts)
    \/ Len(handlers) < MaxChain /\ DoWithGroup(Newest, {"g"})
    \/ DoLog(AllHandlers, LogLevels, LogArgs)

SpecLog == InitLog /\ [][NextLog]_vars

\* the minimum level of a configuration: INFO when none is set
MinLevel(c) == IF c.Level = <<>> THEN LevelInfo ELSE c.Level[1]

\* C15: a call of any logging method at a level below the minimum level of
\* the Logger's handler (INFO when none is set) writes nothing and encodes
\* nothing: Handle is not called, no buffer leaves or enters the pool, no
\* group array is made.
C15_BelowMinimumIsDropped ==
    [][(last'.op \in LoggerOps /\ last'.r.level < MinLevel(cfgs[handlers[last'.h].c])) =>
            /\ last'.writes = <<>>
            /\ last'.ret = "none"
            /\ pool' = pool /\ garrs' = garrs /\ sink' = sink]_vars

\* a formatted call below a minimum set with WithLevel was dropped, with a
\* buffer in the pool that stayed there
C15_Witness ==
    /\ last.op = "Infof"
    /\ last.ret = "none"
    /\ last.h > 1
    /\ Cfg(World, last.h).Level = <<LevelError>>
    /\ pool # <<>>

----------------------------------------------------------------------------
(* SpecEmpty: records with empty and inlined group attributes, handled     *)
(* with IgnoreEmptyGroup set and not set.                                  *)

EmptyConfigs == {[defaultConfig EXCEPT !.IgnoreEmptyGroup = b] : b \in BOOLEAN}
EmptyHeaders == {<<1, LevelInfo, 0, "m">>, <<0, LevelInfo, 0, "m">>}
EmptyAttrs == {A1, Inline, EmptyGroup, Group("", <<>>), Group("o", <<Group("i", <<>>)>>)}

InitEmpty ==
    /\ \E config \in EmptyConfigs :
        /\ handlers = NewJSONHandler(config).handlers
        /\ cfgs = NewJSONHandler(config).cfgs
    /\ garrs = <<>>
    /\ barrs = <<>>
    /\ pool = <<>>
    /\ rec = NoRec
    /\ last = Idle
    /\ procs = [g \in Goroutines |-> IdleProc]
    /\ sink = <<>>
    /\ enc = NoEnc
    /\ levelColorList = DefaultLevelColors
    /\ call = NoCall
    /\ callers = NoCallers

NextEmpty ==
    \/ NewRecord(EmptyHeaders)
    \/ Len(rec.attrs) < MaxAttrs /\ AddAttrs(EmptyAttrs)
    \/ DoHandle(Newest, {rec}, {FALSE})

SpecEmpty == InitEmpty /\ [][NextEmpty]_vars

\* the tokens ts hold "k":{}
HasEmptyObject(ts, k) ==
    \E i \in 1..(Len(ts) - 3) :
        ts[i] = K(k) /\ ts[i + 1] = Colon /\ ts[i + 2] = LB /\ ts[i + 3] = RB

\* the group attributes of the handled record, at any depth
RECURSIVE GroupsIn(_)
GroupsIn(as) ==
    IF as = <<>> THEN {}
    ELSE (IF Head(as).v = "group" THEN {Head(as)} \cup GroupsIn(Head(as).g) ELSE {})
         \cup GroupsIn(Tail(as))

\* C16: a group attribute with an empty key and children has its children
\* in the parent object and no key or braces of its own; a group attribute
\* without children is absent when IgnoreEmptyGroup is set, and when it is not
\* set it is written as "key":{} exactly when its key is non-empty.
C16_GroupAttrPolicy ==
    Emitted =>
        \A a \in GroupsIn(last.r.attrs) :
            /\ (a.k = "" /\ a.g # <<>>) =>
                    /\ \A j \in DOMAIN a.g : Has(Line, K(a.g[j].k))
                    /\ ~Has(Line, K(""))
            /\ a.g = <<>> =>
                    IF Cfg(World, last.h).IgnoreEmptyGroup
                    THEN ~Has(Line, K(a.k))
                    ELSE HasEmptyObject(Line, a.k) <=> a.k # ""

----------------------------------------------------------------------------
(* SpecColor: the level colours are set, reset and looked up.              *)

ColorLevels == {LevelDebug - 4, LevelDebug, LevelInfo + 2, LevelError, LevelError + 4}
ColorEscapes == {"cyan", "green"}
LookupLevels == ColorLevels \cup {LevelDebug - 5, LevelInfo, LevelWarn + 1, LevelError + 5}

NextColor ==
    \/ DoSetLevelColor(ColorLevels, ColorEscapes)
    \/ DoUseDefaultLevelColors
    \/ DoFormatColorLevelValue(LookupLevels)

SpecColor == Init /\ [][NextColor]_vars

\* the list without its entries for the level l
RECURSIVE Without(_, _)
Without(list, l) ==
    IF list = <<>> THEN <<>>
    ELSE (IF Head(list).Level = l THEN <<>> ELSE <<Head(list)>>) \o Without(Tail(list), l)

StrictlyDescending(list) ==
    \A i, j \in DOMAIN list : i < j => list[i].Level > list[j].Level

\* C19: the level-colour list is never empty and its thresholds descend
\* strictly (so none occurs twice); SetLevelColor(l, e) leaves exactly one
\* entry for l, which carries e, and the other entries as they were and in
\* their order; UseDefaultLevelColors leaves the four entries ERROR, WARN,
\* INFO, DEBUG.
C19_ColorListSorted ==
    /\ [](levelColorList # <<>> /\ StrictlyDescending(levelColorList))
    /\ [][/\ call'.fn = "SetLevelColor" =>
                /\ Cardinality({i \in DOMAIN levelColorList' :
                        levelColorList'[i].Level = call'.arg[1]}) = 1
                /\ \A i \in DOMAIN levelColorList' :
                        levelColorList'[i].Level = call'.arg[1] =>
                            levelColorList'[i].string = call'.arg[2]
                /\ Without(levelColorList', call'.arg[1])
                        = Without(levelColorList, call'.arg[1])
          /\ call'.fn = "UseDefaultLevelColors" =>
                /\ Len(levelColorList') = 4
                /\ [i \in 1..4 |-> levelColorList'[i].Level]
                        = <<LevelError, LevelWarn, LevelInfo, LevelDebug>>]_vars

\* a threshold between two others was set, then one below all, then an
\* existing one was overwritten
C19_Witness ==
    /\ call.fn = "SetLevelColor"
    /\ call.arg = <<LevelDebug, "green">>
    /\ Len(levelColorList) = 6
    /\ levelColorList[3] = lvlEscape(LevelInfo + 2, "cyan")
    /\ levelColorList[5] = lvlEscape(LevelDebug, "green")
    /\ levelColorList[6].Level = LevelDebug - 4

\* the entry of the list with the greatest threshold at or below l, the
\* entry with the lowest threshold when l is below all of them
EntryFor(list, l) ==
    IF \E i \in DOMAIN list : list[i].Level <= l
    THEN CHOOSE e \in {list[i] : i \in DOMAIN list} :
            /\ e.Level <= l
            /\ \A i \in DOMAIN list : list[i].Level <= l => list[i].Level <= e.Level
    ELSE CHOOSE e \in {list[i] : i \in DOMAIN list} :
            \A i \in DOMAIN list : e.Level <= list[i].Level

NamedLevels ==
    {<<"DEBUG", LevelDebug>>, <<"INFO", LevelInfo>>, <<"WARN", LevelWarn>>,
     <<"ERROR", LevelError>>}

\* the name of a level: the greatest named level at or below it (DEBUG when it
\* is below all) and the distance from it
NameWithOffset(l) ==
    LET n == IF l < LevelDebug THEN <<"DEBUG", LevelDebug>>
             ELSE CHOOSE n \in NamedLevels :
                    /\ n[2] <= l
                    /\ \A o \in NamedLevels : o[2] <= l => o[2] <= n[2]
    IN <<n[1], l - n[2]>>

\* C20: formatColorLevelValue writes the escape of the entry with the
\* greatest threshold at or below the level (of the lowest entry when the
\* level is below every threshold), then the level's name with its offset,
\* then the reset code.
C20_ColorOfLevel ==
    call.fn = "formatColorLevelValue" =>
        call.out = <<EntryFor(levelColorList, call.arg).string,
                     NameWithOffset(call.arg), "reset">>

\* a level between two set thresholds took the colour of the lower one, and
\* a level below every threshold the colour of the lowest
C20_Witness ==
    /\ call.fn = "formatColorLevelValue"
    /\ \/ /\ call.arg = LevelWarn + 1
          /\ Len(levelColorList) = 5
          /\ levelColorList[3] = lvlEscape(LevelInfo + 2, "green")
          /\ call.out = <<"yellow", <<"WARN", 1>>, "reset">>
       \/ /\ call.arg = LevelDebug - 5
          /\ levelColorList[Len(levelColorList)] = lvlEscape(LevelDebug - 4, "cyan")
          /\ call.out = <<"cyan", <<"DEBUG", -1>>, "reset">>

----------------------------------------------------------------------------
(* Strings and byte slices.  A byte is a number in 0..255, a string or a   *)
(* buffer a sequence of bytes.                                             *)

MaxLen == 3           \* bytes of an encoded string or byte slice

RuneError == 65533    \* U+FFFD

\* hex[n]
Hex(n) == IF n < 10 THEN 48 + n ELSE 87 + n

\* the length of the UTF-8 sequence the byte b starts, 0 when it starts none
RuneLen(b) ==
    IF b < 128 THEN 1
    ELSE IF b \in 194..223 THEN 2
    ELSE IF b \in 224..239 THEN 3
    ELSE IF b \in 240..244 THEN 4
    ELSE 0

\* the second byte a sequence starting with b accepts
Accepts(b) ==
    (IF b = 224 THEN 160 ELSE IF b = 240 THEN 144 ELSE 128)
        .. (IF b = 237 THEN 159 ELSE IF b = 244 THEN 143 ELSE 191)

\* the rune of a well-formed sequence of n bytes at bs[i]
RuneAt(bs, i, n) ==
    IF n = 2 THEN (bs[i] - 192) * 64 + (bs[i + 1] - 128)
    ELSE IF n = 3
         THEN (bs[i] - 224) * 4096 + (bs[i + 1] - 128) * 64 + (bs[i + 2] - 128)
    ELSE (bs[i] - 240) * 262144 + (bs[i + 1] - 128) * 4096
            + (bs[i + 2] - 128) * 64 + (bs[i + 3] - 128)

decodeRune(bs, i, n) ==
    IF n = 1 THEN [r |-> bs[i], size |-> 1]
    ELSE IF \/ n = 0
            \/ i + n - 1 > Len(bs)
            \/ bs[i + 1] \notin Accepts(bs[i])
            \/ \E j \in (i + 2)..(i + n - 1) : bs[j] \notin 128..191
         THEN [r |-> RuneError, size |-> 1]
    ELSE [r |-> RuneAt(bs, i, n), size |-> n]

\* utf8.DecodeRune(bs[i:]), which is also what ranging over a string decodes
DecodeRune(bs, i) == decodeRune(bs, i, RuneLen(bs[i]))

\* unicode.IsPrint on U+0000..U+007F, U+2000..U+206F (spaces, separators and
\* format characters are not printable), U+2A00..U+2AFF and U+FFFD (symbols),
\* the runes the bytes of the model form
IsPrint(r) ==
    IF r < 128 THEN r \in 32..126
    ELSE r \notin (8192..8207) \cup (8232..8239) \cup {8287} \cup (8288..8303)

safeSet(b) == b \in (32..127) \ {34, 92}

\* what jsonEncodeString writes for a byte below utf8.RuneSelf not in safeSet
escapeByte(b) ==
    CASE b \in {92, 34} -> <<92, b>>
      [] b = 9 -> <<92, 116>>
      [] b = 10 -> <<92, 110>>
      [] b = 13 -> <<92, 114>>
      [] OTHER -> <<92, 117, 48, 48, Hex(b \div 16), Hex(b % 16)>>

\* what jsonEncodeString writes for the rune d decoded at bs[i]
escapeRune(bs, i, d) ==
    IF d.r = RuneError /\ d.size = 1 THEN <<92, 117, 102, 102, 102, 100>>
    ELSE IF d.r \in {8232, 8233} THEN <<92, 117, 50, 48, 50, Hex(d.r % 16)>>
    ELSE SubSeq(bs, i, i + d.size - 1)

\* the loop of jsonEncodeString from bs[i]; the bytes it skips are written
\* with the next escape or at the end, in their order
RECURSIVE encodeFrom(_, _)
encodeFrom(bs, i) ==
    IF i > Len(bs) THEN <<>>
    ELSE IF bs[i] < 128
         THEN (IF safeSet(bs[i]) THEN <<bs[i]>> ELSE escapeByte(bs[i]))
                \o encodeFrom(bs, i + 1)
    ELSE escapeRune(bs, i, DecodeRune(bs, i))
            \o encodeFrom(bs, i + DecodeRune(bs, i).size)

jsonEncodeString(s) == <<34>> \o encodeFrom(s, 1) \o <<34>>

\* the character of base64.StdEncoding for six bits
encodeStd(v) ==
    IF v < 26 THEN 65 + v
    ELSE IF v < 52 THEN 71 + v
    ELSE IF v < 62 THEN v - 4
    ELSE IF v = 62 THEN 43 ELSE 47

\* base64.StdEncoding.Encode
RECURSIVE Encode(_)
Encode(bs) ==
    IF bs = <<>> THEN <<>>
    ELSE IF Len(bs) = 1
         THEN <<encodeStd(bs[1] \div 4), encodeStd((bs[1] % 4) * 16), 61, 61>>
    ELSE IF Len(bs) = 2
         THEN <<encodeStd(bs[1] \div 4), encodeStd((bs[1] % 4) * 16 + (bs[2] \div 16)),
                encodeStd((bs[2] % 16) * 4), 61>>
    ELSE <<encodeStd(bs[1] \div 4), encodeStd((bs[1] % 4) * 16 + (bs[2] \div 16)),
           encodeStd((bs[2] % 16) * 4 + (bs[3] \div 64)), encodeStd(bs[3] % 64)>>
            \o Encode(SubSeq(bs, 4, Len(bs)))

\* the loop of addBytes that looks for a rune that is not printable
RECURSIVE printable(_, _)
printable(bs, i) ==
    IF i > Len(bs) THEN TRUE
    ELSE /\ IsPrint(DecodeRune(bs, i).r)
         /\ printable(bs, i + DecodeRune(bs, i).size)

\* jsonEncoder.addBytes on an empty buffer: what it wrote and the way it took
addBytes(bytes) ==
    IF Len(bytes) = 0 THEN [out |-> <<34, 34>>, path |-> "empty"]
    ELSE IF printable(bytes, 1)
         THEN [out |-> jsonEncodeString(bytes), path |-> "printable"]
    ELSE [out |-> <<34>> \o Encode(bytes) \o <<34>>, path |-> "base64"]

DoAddBytes ==
    \E res \in {addBytes(call.arg)} :
        /\ call' = Call("addBytes", call.arg, res.out, res.path)
        /\ UNCHANGED <<hvars, levelColorList, callers>>

DoJsonEncodeString ==
    /\ call' = Call("jsonEncodeString", call.arg, jsonEncodeString(call.arg), "none")
    /\ UNCHANGED <<hvars, levelColorList, callers>>

----------------------------------------------------------------------------
(* SpecStr: every string of up to MaxLen of these bytes is encoded as a    *)
(* byte slice and as a string.                                             *)

\* control bytes, tab, newline, carriage return, quote, <, >, backslash, a,
\* DEL, the bytes of U+2028 and U+2029, and 0xFF, which no UTF-8 holds
Bytes == {1, 9, 10, 13, 31, 34, 60, 62, 92, 97, 127, 128, 168, 169, 226, 255}

ByteStrings == UNION {[1..n -> Bytes] : n \in 0..MaxLen}

InitStr ==
    /\ handlers = NewJSONHandler(defaultConfig).handlers
    /\ cfgs = NewJSONHandler(defaultConfig).cfgs
    /\ garrs = <<>>
    /\ barrs = <<>>
    /\ pool = <<>>
    /\ rec = NoRec
    /\ last = Idle
    /\ procs = [g \in Goroutines |-> IdleProc]
    /\ sink = <<>>
    /\ enc = NoEnc
    /\ levelColorList = DefaultLevelColors
    /\ \E bs \in ByteStrings : call = Call("none", bs, <<>>, "none")
    /\ callers = NoCallers

NextStr ==
    \/ DoAddBytes
    \/ DoJsonEncodeString

SpecStr == InitStr /\ [][NextStr]_vars

\* the value of a hex digit
UnHex(c) == IF c \in 48..57 THEN c - 48 ELSE c - 87

\* the UTF-8 bytes of a rune of the basic plane
AppendRune(r) ==
    IF r < 128 THEN <<r>>
    ELSE IF r < 2048 THEN <<192 + (r \div 64), 128 + (r % 64)>>
    ELSE <<224 + (r \div 4096), 128 + ((r \div 64) % 64), 128 + (r % 64)>>

\* the bytes an escape sequence starting with a backslash at ts[i] stands for
Unescaped(ts, i) ==
    CASE ts[i + 1] = 117 ->
            AppendRune(UnHex(ts[i + 2]) * 4096 + UnHex(ts[i + 3]) * 256
                        + UnHex(ts[i + 4]) * 16 + UnHex(ts[i + 5]))
      [] ts[i + 1] = 116 -> <<9>>
      [] ts[i + 1] = 110 -> <<10>>
      [] ts[i + 1] = 114 -> <<13>>
      [] OTHER -> <<ts[i + 1]>>

\* the bytes of the string a JSON decoder reads from ts[i] up to the closing
\* quote, the last element of ts
RECURSIVE Unquoted(_, _)
Unquoted(ts, i) ==
    IF i >= Len(ts) THEN <<>>
    ELSE IF ts[i] = 92
         THEN Unescaped(ts, i) \o Unquoted(ts, i + (IF ts[i + 1] = 117 THEN 6 ELSE 2))
    ELSE <<ts[i]>> \o Unquoted(ts, i + 1)

JSONDecode(out) == Unquoted(out, 2)

\* the six bits of a character of base64.StdEncoding
DecodeStd(c) ==
    IF c \in 65..90 THEN c - 65
    ELSE IF c \in 97..122 THEN c - 71
    ELSE IF c \in 48..57 THEN c + 4
    ELSE IF c = 43 THEN 62 ELSE 63

\* the up to three bytes of four characters
Quad(c1, c2, c3, c4) ==
    <<DecodeStd(c1) * 4 + (DecodeStd(c2) \div 16)>>
    \o (IF c3 = 61 THEN <<>>
        ELSE <<(DecodeStd(c2) % 16) * 16 + (DecodeStd(c3) \div 4)>>)
    \o (IF c4 = 61 THEN <<>> ELSE <<(DecodeStd(c3) % 4) * 64 + DecodeStd(c4)>>)

RECURSIVE Base64Decode(_)
Base64Decode(cs) ==
    IF Len(cs) < 4 THEN <<>>
    ELSE Quad(cs[1], cs[2], cs[3], cs[4]) \o Base64Decode(SubSeq(cs, 5, Len(cs)))

RECURSIVE ValidUTF8(_, _)
ValidUTF8(bs, i) ==
    IF i > Len(bs) THEN TRUE
    ELSE /\ ~(DecodeRune(bs, i).r = RuneError /\ DecodeRune(bs, i).size = 1)
         /\ ValidUTF8(bs, i + DecodeRune(bs, i).size)

\* C17: JSON-decoding what addBytes wrote gives the bytes back, directly on
\* the printable-string path and after base64 decoding on the base64 path;
\* bytes that are not valid UTF-8 never take the printable-string path.
C17_BytesRoundTrip ==
    call.fn = "addBytes" =>
        /\ call.arg = IF call.path = "base64"
                      THEN Base64Decode(JSONDecode(call.out))
                      ELSE JSONDecode(call.out)
        /\ ~ValidUTF8(call.arg, 1) => call.path # "printable"

\* what the claimed escaping writes for a byte below 0x80; the short escapes
\* of quote, backslash, tab, newline and carriage return are taken as written
ClaimedByte(b) ==
    IF b \in {60, 62} \/ (b < 32 /\ b \notin {9, 10, 13})
    THEN <<92, 117, 48, 48, Hex(b \div 16), Hex(b % 16)>>
    ELSE IF b \in {34, 92} THEN <<92, b>>
    ELSE IF b = 9 THEN <<92, 116>>
    ELSE IF b = 10 THEN <<92, 110>>
    ELSE IF b = 13 THEN <<92, 114>>
    ELSE <<b>>

ClaimedRune(bs, i, d) ==
    IF d.r = RuneError /\ d.size = 1 THEN <<92, 117, 102, 102, 102, 100>>
    ELSE IF d.r = 8232 THEN <<92, 117, 50, 48, 50, 56>>
    ELSE IF d.r = 8233 THEN <<92, 117, 50, 48, 50, 57>>
    ELSE SubSeq(bs, i, i + d.size - 1)

RECURSIVE Claimed(_, _)
Claimed(bs, i) ==
    IF i > Len(bs) THEN <<>>
    ELSE IF bs[i] < 128 THEN ClaimedByte(bs[i]) \o Claimed(bs, i + 1)
    ELSE ClaimedRune(bs, i, DecodeRune(bs, i))
            \o Claimed(bs, i + DecodeRune(bs, i).size)

\* C18: between the quotes, jsonEncodeString writes < and > and every
\* control byte below 0x20 but tab, newline and carriage return as a
\* backslash-u-00XX escape, every byte that is not valid UTF-8 as the escape
\* of U+FFFD, U+2028 and U+2029 as their escapes, and every other byte as
\* it is.
C18_EscapesAsClaimed ==
    call.fn = "jsonEncodeString" =>
        call.out = <<34>> \o Claimed(call.arg, 1) \o <<34>>

----------------------------------------------------------------------------
(* The level colours under concurrent calls.  levelColorList is a package  *)
(* variable holding a slice header (pointer, length, capacity) that is     *)
(* read and written without synchronisation.  A store of a header is two   *)
(* steps, its begin and its end; a load that falls between them may take   *)
(* the pointer of one header and the length of another.  A backing array   *)
(* is named by its contents: none is written after it has been published.  *)

MaxColors == 6        \* entries of a level-colour list

\* the lists whose header is in levelColorList or is being stored there
Complete == {levelColorList} \cup {callers[w].new : w \in {g \in Goroutines : callers[g].pc = "store"}}

\* the headers a load of levelColorList may give
Headers == {[arr |-> a, len |-> Len(b)] : a \in Complete, b \in Complete}

\* what lies behind a backing array, whatever it is
Garbage == lvlEscape(0, "garbage")

\* the entries a goroutine reads through a header
Load(hd) == [i \in 1..hd.len |-> IF i <= Len(hd.arr) THEN hd.arr[i] ELSE Garbage]

\* SetLevelColor up to its last statement: the list is cloned and changed
SetLevelColorBegin(g, levels, escapes) ==
    \E l \in levels, escape \in escapes, hd \in Headers :
        /\ callers[g].pc = "idle"
        /\ hd.len < MaxColors
        /\ callers' = [callers EXCEPT ![g] =
                Caller("store", "SetLevelColor", <<l, escape>>,
                       SetLevelColor(Load(hd), l, escape), <<>>, {})]
        /\ UNCHANGED <<hvars, levelColorList, call>>

\* UseDefaultLevelColors up to the store of the new list
UseDefaultLevelColorsBegin(g) ==
    /\ callers[g].pc = "idle"
    /\ callers' = [callers EXCEPT ![g] =
            Caller("store", "UseDefaultLevelColors", <<>>, DefaultLevelColors, <<>>, {})]
    /\ UNCHANGED <<hvars, levelColorList, call>>

\* levelColorList = newList, and the return
Store(g) ==
    /\ callers[g].pc = "store"
    /\ levelColorList' = callers[g].new
    /\ callers' = [callers EXCEPT ![g].pc = "idle"]
    /\ call' = Call(callers[g].fn, callers[g].arg, <<>>, "none")
    /\ UNCHANGED hvars

\* formatColorLevelValue: range loads the header once
ReadColor(g, levels) ==
    \E l \in levels, hd \in Headers :
        /\ callers[g].pc = "idle"
        /\ callers' = [callers EXCEPT ![g] =
                Caller("idle", "formatColorLevelValue", l, <<>>, Load(hd), Complete)]
        /\ call' = Call("formatColorLevelValue", l,
                        formatColorLevelValue(Load(hd), l), "none")
        /\ UNCHANGED <<hvars, levelColorList>>

----------------------------------------------------------------------------
(* SpecRace: one goroutine sets and resets level colours while another     *)
(* renders levels.                                                         *)

RaceLevels == {LevelInfo + 2, LevelDebug - 4}
RaceEscapes == {"cyan"}

NextRace ==
    \/ SetLevelColorBegin("g1", RaceLevels, RaceEscapes)
    \/ UseDefaultLevelColorsBegin("g1")
    \/ Store("g1")
    \/ ReadColor("g2", {LevelInfo, LevelDebug - 5})

SpecRace == Init /\ [][NextRace]_vars

\* C21: the list a reader of the level colours sees is one of the complete
\* lists: the one levelColorList held before a concurrent SetLevelColor or
\* UseDefaultLevelColors, or the one that call stores.
C21_ReaderSeesCompleteList ==
    \A g \in Goroutines :
        callers[g].fn = "formatColorLevelValue" => callers[g].seen \in callers[g].ok

----------------------------------------------------------------------------
(* SpecSetters: two goroutines call SetLevelColor, each for levels of its  *)
(* own.                                                                    *)

SetterLevels == [g1 |-> {LevelInfo + 2, LevelError + 4}, g2 |-> {LevelDebug - 4, LevelWarn + 2}]
SetterEscapes == [g1 |-> {"cyan"}, g2 |-> {"green"}]

NextSetters ==
    \/ \E g \in Goroutines : SetLevelColorBegin(g, SetterLevels[g], SetterEscapes[g])
    \/ \E g \in Goroutines : Store(g)

SpecSetters == Init /\ [][NextSetters]_vars

\* C29: when two goroutines have returned from SetLevelColor calls for two
\* different levels, the list holds for each of the two levels an entry with
\* the escape given to it, and descends strictly.
C29_BothSettersTakeEffect ==
    (\A g \in Goroutines : callers[g].pc = "idle" /\ callers[g].fn = "SetLevelColor") =>
        /\ \A g \in Goroutines :
                lvlEscape(callers[g].arg[1], callers[g].arg[2])
                    \in {levelColorList[i] : i \in DOMAIN levelColorList}
        /\ StrictlyDescending(levelColorList)

----------------------------------------------------------------------------
(* SpecDev: development mode, with and without a hook that drops           *)
(* attributes or every built-in field.                                     *)

DevConfigs ==
    {[defaultConfig EXCEPT !.Development = TRUE, !.ReplaceAttr = hook,
                           !.AddSource = src, !.StacktraceEnabled = TRUE]
        : hook \in {"nil", "drop", "dropAll"}, src \in BOOLEAN}
DevHeaders ==
    {<<t, LevelError, pc, msg>> : t \in {0, 1}, pc \in {0, 1}, msg \in {"", "m"}}
DevAttrs == {PW, EmptyGroup, Inline}

InitDev ==
    /\ \E config \in DevConfigs :
        /\ handlers = NewJSONHandler(config).handlers
        /\ cfgs = NewJSONHandler(config).cfgs
    /\ garrs = <<>>
    /\ barrs = <<>>
    /\ pool = <<>>
    /\ rec = NoRec
    /\ last = Idle
    /\ procs = [g \in Goroutines |-> IdleProc]
    /\ sink = <<>>
    /\ enc = NoEnc
    /\ levelColorList = DefaultLevelColors
    /\ call = NoCall
    /\ callers = NoCallers

NextDev ==
    \/ Len(handlers) < MaxChain /\ DoWithGroup(Newest, {"g"})
    \/ Len(handlers) < MaxChain /\ DoWithAttrs(Newest, {<<PW>>, <<A1>>})
    \/ NewRecord(DevHeaders)
    \/ Len(rec.attrs) < MaxAttrs /\ AddAttrs(DevAttrs)
    \/ DoHandle(Newest, {rec}, {FALSE})

SpecDev == InitDev /\ [][NextDev]_vars

\* the last Handle call was in development mode
DevHandled == last.op = "Handle" /\ Cfg(World, last.h).Development

\* the text of the built-in fields of the handled record
HeadText ==
    developmentMessage(
        developmentSource(
            developmentLevel(
                developmentTime(newJSONEncoder(World, last.h, <<>>), Cfg(World, last.h), last.r),
                last.r),
            Cfg(World, last.h), last.r),
        last.r).buf

\* the handler's preformatted bytes or one of the attributes put a byte on
\* the line
AttrOutput ==
    \/ LastPre # <<>>
    \/ KeysOf(Extracted(Cfg(World, last.h).ContextExtractors) \o last.r.attrs,
              Cfg(World, last.h).ReplaceAttr) # <<>>

\* C22: in development mode the tab and the JSON object follow the text of
\* the built-in fields exactly when the preformatted bytes (attributes and
\* opened groups of the handler), the context attributes or the record's
\* attributes produced output; otherwise the line ends right after that
\* text, which is the same in both cases.
C22_TailIffAttrOutput ==
    (DevHandled /\ last.writes # <<>>) =>
        /\ SubSeq(Line, 1, Len(HeadText)) = HeadText
        /\ IF AttrOutput
           THEN /\ SubSeq(Line, Len(HeadText) + 1, Len(HeadText) + 2) = <<Tab, LB>>
                /\ Line[Len(HeadText) + 3] # RB
           ELSE Line[Len(HeadText) + 1] = lineEnding

\* the only attribute of a record was dropped by the hook and the object
\* was removed; or only a group was opened and the object was kept
C22_Witness ==
    /\ DevHandled
    /\ last.writes # <<>>
    /\ \/ /\ last.r.attrs = <<PW>>
          /\ Cfg(World, last.h).ReplaceAttr = "drop"
          /\ LastPre = <<>>
          /\ Line = HeadText \o <<lineEnding>>
       \/ /\ last.r.attrs = <<EmptyGroup>>
          /\ LastGroups = <<"g">>
          /\ Has(Line, LB)

\* C23: in development mode Handle does not panic, whatever the record and
\* the configuration; the line ends with a newline, and a stack trace
\* written after the line is followed by a newline of its own, all in one
\* Write.
C23_DevelopmentLineEnds ==
    DevHandled =>
        /\ last.ret # "panic"
        /\ Len(last.writes) = 1
        /\ Line[Len(Line)] = lineEnding
        /\ (HasStack /\ Cfg(World, last.h).ReplaceAttr # "dropAll") =>
                /\ Len(Line) >= 3
                /\ SubSeq(Line, Len(Line) - 1, Len(Line)) = <<T("stack"), lineEnding>>
                /\ Line[Len(Line) - 2] = lineEnding

----------------------------------------------------------------------------
(* Logger values.  A *Logger is the pair of its handler and its caller     *)
(* skip; the methods below return a new Logger and write to none.          *)

Logger(h, callerSkip) == [h |-> h, callerSkip |-> callerSkip]

\* Logger.clone: the handler is copied, callerSkip is the zero value
cloneLogger(l) == Logger(l.h, 0)

\* the loggers made so far that a method can be called on: the receiver and
\* the result of the last call
Receivers == {call.out} \cup {call.arg[i] : i \in DOMAIN call.arg \cap {1}}

\* l.WithCallerSkip(skip)
LoggerWithCallerSkip(skips) ==
    \E l \in Receivers, skip \in skips :
        /\ call' = Call("WithCallerSkip", <<l, skip>>,
                        [cloneLogger(l) EXCEPT !.callerSkip = @ + skip], "none")
        /\ UNCHANGED <<hvars, levelColorList, callers>>

\* l.With, l.WithGroup or l.WithOptions: a clone with the derived handler w
derived(fn, l, w) ==
    /\ Install(w)
    /\ Did(fn, Len(w.handlers), NoRec, <<>>, "nil", FALSE)
    /\ call' = Call(fn, <<l, 0>>, [cloneLogger(l) EXCEPT !.h = Len(w.handlers)], "none")
    /\ UNCHANGED <<pool, rec, procs, sink, enc, levelColorList, callers>>

LoggerWith(lists) ==
    \E l \in Receivers, attrs \in lists : derived("With", l, WithAttrs(World, l.h, attrs))

LoggerWithGroup(names) ==
    \E l \in Receivers, name \in names : derived("WithGroup", l, WithGroup(World, l.h, name))

LoggerWithOptions(opts) ==
    \E l \in Receivers, opt \in opts :
        derived("WithOptions", l, WithOptions(World, l.h, opt))

\* l.Log: the second component of the argument is the skip that log passes
\* to runtime.Callers when it captures the pc
LoggerLog(levels) ==
    \E l \in Receivers, level \in levels :
        /\ Enabled(Cfg(World, l.h), level)
        /\ logEnabled("Log", l.h, level, <<>>)
        /\ call' = Call("Log", <<l, 3 + l.callerSkip>>, l, "none")
        /\ UNCHANGED <<handlers, cfgs, barrs, rec, procs, sink, enc, levelColorList, callers>>

----------------------------------------------------------------------------
(* SpecLogger: loggers are derived from New(h) and log.                    *)

SkipValues == {-1, 1, 2}

InitLogger ==
    /\ handlers = NewJSONHandler(defaultConfig).handlers
    /\ cfgs = NewJSONHandler(defaultConfig).cfgs
    /\ garrs = <<>>
    /\ barrs = <<>>
    /\ pool = <<>>
    /\ rec = NoRec
    /\ last = Idle
    /\ procs = [g \in Goroutines |-> IdleProc]
    /\ sink = <<>>
    /\ enc = NoEnc
    /\ levelColorList = DefaultLevelColors
    /\ call = Call("New", <<>>, Logger(1, 0), "none")
    /\ callers = NoCallers

NextLogger ==
    \/ LoggerWithCallerSkip(SkipValues)
    \/ Len(handlers) < MaxChain /\ LoggerWith({<<A1>>})
    \/ Len(handlers) < MaxChain /\ LoggerWithGroup({"g"})
    \/ Len(handlers) < MaxChain /\ LoggerWithOptions({Opt("AddSource", TRUE, <<>>)})
    \/ LoggerLog({LevelInfo, LevelError})

SpecLogger == InitLogger /\ [][NextLogger]_vars

\* C24: WithCallerSkip(k) returns a logger whose caller skip is the
\* receiver's plus k; With, WithGroup and WithOptions return a logger with
\* the receiver's caller skip; log skips its own three frames and the
\* logger's caller skip.
C24_CallerSkipAccumulates ==
    /\ call.fn = "WithCallerSkip" =>
            call.out.callerSkip = call.arg[1].callerSkip + call.arg[2]
    /\ call.fn \in {"With", "WithGroup", "WithOptions"} =>
            call.out.callerSkip = call.arg[1].callerSkip
    /\ call.fn = "Log" => call.arg[2] = 3 + call.arg[1].callerSkip

----------------------------------------------------------------------------
(* SpecLazy: AppendAttr on attributes whose value is computed lazily, on   *)
(* encoders with and without a hook.                                       *)

LazyConfigs == {[defaultConfig EXCEPT !.ReplaceAttr = hk] : hk \in {"nil", "drop", "rename"}}

LazyAttrs == {Lazy("pw", PW), Lazy("a", A1), Lazy("u", Group("u", <<A2>>)),
              Group("s", <<Lazy("c", A3)>>), Lazy("v", Group("v", <<Lazy("pw", PW)>>)),
              A1}

InitLazy ==
    /\ \E config \in LazyConfigs :
        /\ handlers = NewJSONHandler(config).handlers
        /\ cfgs = NewJSONHandler(config).cfgs
    /\ garrs = <<>>
    /\ barrs = <<>>
    /\ pool = <<>>
    /\ rec = NoRec
    /\ last = Idle
    /\ procs = [g \in Goroutines |-> IdleProc]
    /\ sink = <<>>
    /\ enc = NoEnc
    /\ levelColorList = DefaultLevelColors
    /\ call = NoCall
    /\ callers = NoCallers

\* enc.AppendAttr(a), once no lazy value has been resolved by this encoder;
\* the attribute is kept in call
EncAppendAttr(as) ==
    \E a \in as :
        /\ enc.buf # <<>> /\ enc.ev = <<>>
        /\ \E m \in {AppendAttrAll(Live(enc), a)} :
              /\ enc' = Stale(m)
              /\ garrs' = m.garrs
        /\ Did("AppendAttr", last.h, NoRec, <<>>, "nil", FALSE)
        /\ call' = Call("AppendAttr", <<a>>, <<>>, "none")
        /\ UNCHANGED <<handlers, cfgs, barrs, pool, rec, procs, sink, levelColorList, callers>>

NextLazy ==
    \/ Len(handlers) < MaxChain /\ enc = NoEnc /\ DoWithGroup(Newest, {"g"})
    \/ EncNew
    \/ Count(enc.buf, Colon) < MaxAttrs /\ EncAppendAttr(LazyAttrs)

SpecLazy == InitLazy /\ [][NextLazy]_vars

\* the keys of the lazy values in and below attribute a
RECURSIVE LazyKeys(_)
LazyKeys(a) ==
    (IF a.v = "lazy" THEN {a.k} ELSE {})
        \cup UNION {LazyKeys(a.g[i]) : i \in DOMAIN a.g}

\* C25: while AppendAttr encodes one attribute, Kind is never called on a
\* lazy value that has not been forced, the hook is called on the forced
\* value only, and the producer of each lazy value runs exactly once, with a
\* hook and without.
C25_LazyForcedFirst ==
    call.fn = "AppendAttr" =>
        /\ \A i \in DOMAIN enc.ev : enc.ev[i][1] # "Kind"
        /\ \A i \in DOMAIN enc.ev : enc.ev[i][1] = "ReplaceAttr" => enc.ev[i][3] # "lazy"
        /\ \A k \in LazyKeys(call.arg[1]) :
              Cardinality({i \in DOMAIN enc.ev : enc.ev[i] = <<"LogValue", k>>}) <= 1

\* the parts of C25 that do not depend on the order of Kind and Resolve
LazyOnceAndForcedForHook ==
    call.fn = "AppendAttr" =>
        /\ \A i \in DOMAIN enc.ev : enc.ev[i][1] = "ReplaceAttr" => enc.ev[i][3] # "lazy"
        /\ \A k \in LazyKeys(call.arg[1]) :
              Cardinality({i \in DOMAIN enc.ev : enc.ev[i] = <<"LogValue", k>>}) <= 1
        /\ \A i \in DOMAIN enc.ev : enc.ev[i][1] = "Kind" => enc.hook # "nil"

----------------------------------------------------------------------------
(* SpecTime: records with a time and attributes that carry a time, handled *)
(* by handlers with a custom time key, with groups and with hooks.         *)

TimeKeys == {"time", "ts"}
TimeHooks == {"nil", "retime", "untime"}
TimeConfigs ==
    {[defaultConfig EXCEPT !.TimeKey = k, !.ReplaceAttr = hk, !.Development = d] :
        k \in TimeKeys, hk \in TimeHooks, d \in BOOLEAN}
UserTime == Leaf("t", "time")
TimeHeaders == {<<1, LevelInfo, 0, "m">>, <<0, LevelInfo, 0, "m">>}
TimeAttrs == {UserTime, Group("s", <<UserTime>>), A1}

InitTime ==
    /\ \E config \in TimeConfigs :
        /\ handlers = NewJSONHandler(config).handlers
        /\ cfgs = NewJSONHandler(config).cfgs
    /\ garrs = <<>>
    /\ barrs = <<>>
    /\ pool = <<>>
    /\ rec = NoRec
    /\ last = Idle
    /\ procs = [g \in Goroutines |-> IdleProc]
    /\ sink = <<>>
    /\ enc = NoEnc
    /\ levelColorList = DefaultLevelColors
    /\ call = NoCall
    /\ callers = NoCallers

NextTime ==
    \/ Len(handlers) < MaxChain /\ DoWithGroup(Newest, {"g"})
    \/ Len(handlers) < MaxChain /\ DoWithAttrs(Newest, {<<UserTime>>})
    \/ NewRecord(TimeHeaders)
    \/ Len(rec.attrs) < MaxAttrs /\ AddAttrs(TimeAttrs)
    \/ DoHandle(Newest, {rec}, {FALSE})

SpecTime == InitTime /\ [][NextTime]_vars

\* the record of the last call was written with its time
TimeWritten == last.op = "Handle" /\ last.writes # <<>> /\ last.r.time # 0

\* the attribute the hook of configuration c returns for the record's time
ReturnedTimeOf(c) ==
    IF c.ReplaceAttr = "nil" THEN Leaf(c.TimeKey, "time")
    ELSE ReplaceAttr(c.ReplaceAttr, LastGroups, Leaf(c.TimeKey, "time"))

\* the value of the built-in time field in the line written
BuiltInTime ==
    IF Cfg(World, last.h).Development THEN Line[1]
    ELSE IF Line[2] = K(Cfg(World, last.h).TimeKey) THEN Line[4] ELSE <<>>

\* what the configured time formatter writes, as text and as a JSON string
FormattedTimes ==
    {T(TimeFormatter(t)) : t \in TimeKinds} \cup {S(TimeFormatter(t)) : t \in TimeKinds}

\* every value under the key of the user's time attribute is RFC 3339 with
\* nanoseconds
UserTimesNano ==
    \A i \in 1..Len(Line) - 2 : Line[i] = K(UserTime.k) => Line[i + 2] = S("rfc3339nano")

----------------------------------------------------------------------------
(* SpecStack: Loggers over handlers with and without stack traces, source  *)
(* and groups log at several levels.                                       *)

StackConfigs ==
    {[defaultConfig EXCEPT !.AddSource = src, !.StacktraceEnabled = st,
                           !.Development = d] :
        src \in BOOLEAN, st \in BOOLEAN, d \in BOOLEAN}
    \cup {[defaultConfig EXCEPT !.StacktraceEnabled = TRUE, !.StacktraceLevel = LevelWarn]}
StackOpts == {Opt("StacktraceEnabled", TRUE, <<>>)}
StackLevels == {LevelWarn, LevelError}
StackArgs == {<<Group("s", <<A1>>)>>}

InitStack ==
    /\ \E config \in StackConfigs :
        /\ handlers = NewJSONHandler(config).handlers
        /\ cfgs = NewJSONHandler(config).cfgs
    /\ garrs = <<>>
    /\ barrs = <<>>
    /\ pool = <<>>
    /\ rec = NoRec
    /\ last = Idle
    /\ procs = [g \in Goroutines |-> IdleProc]
    /\ sink = <<>>
    /\ enc = NoEnc
    /\ levelColorList = DefaultLevelColors
    /\ call = NoCall
    /\ callers = NoCallers

NextStack ==
    \/ Len(handlers) < MaxChain /\ DoWithOptions(Newest, StackOpts)
    \/ Len(handlers) < MaxChain /\ DoWithGroup(Newest, {"g"})
    \/ DoLog(AllHandlers, StackLevels, StackArgs)

SpecStack == InitStack /\ [][NextStack]_vars

\* a logging method of the Logger has written the record of the last call
Logged == last.op \in LoggerOps /\ last.writes # <<>>

\* the places of the stack trace in the line written
StackAt ==
    {i \in 1..Len(Line) : Line[i] \in {K("stacktrace"), T("stack")}}

\* the braces open in front of token i of the line
DepthAt(i) == Count(SubSeq(Line, 1, i - 1), LB) - Count(SubSeq(Line, 1, i - 1), RB)

\* C27: the line of a record logged through a Logger has a stack trace
\* exactly when StacktraceEnabled is set and the level is at least
\* StacktraceLevel, whatever AddSource is, and in JSON mode the field is the
\* last one of the top-level object, behind the closing braces of all groups.
C27_StacktraceIffEnabled ==
    Logged =>
        /\ StackAt # {} <=>
              (Cfg(World, last.h).StacktraceEnabled
                  /\ last.r.level >= Cfg(World, last.h).StacktraceLevel)
        /\ ~Cfg(World, last.h).Development =>
              \A i \in StackAt :
                  /\ DepthAt(i) = 1
                  /\ SubSeq(Line, i + 3, Len(Line)) = <<RB, lineEnding>>

\* a Logger without AddSource, over a handler with a group, has logged a
\* record with a group attribute and a stack trace in JSON mode
C27_Witness ==
    /\ Logged
    /\ ~Cfg(World, last.h).Development
    /\ ~Cfg(World, last.h).AddSource
    /\ LastGroups # <<>>
    /\ last.r.attrs # <<>>
    /\ StackAt # {}

----------------------------------------------------------------------------
(* The buffer as bytes.  A Buffer b is a slice header b.s over an array of *)
(* b.heap; the bytes behind its length stay in the array.                  *)

\* smallBufferSize, scaled down
SmallBufferSize == 4
\* the longest buffer the model makes
MaxBufLen == 6

\* growBuf = make([]byte, smallBufferSize)
growBuf == Zeros(SmallBufferSize, 0)

\* buffer.New when the pool is empty: make([]byte, 0, smallBufferSize)
NewBuffer ==
    [heap |-> <<Zeros(SmallBufferSize, 0)>>,
     s |-> [a |-> 1, len |-> 0, cap |-> SmallBufferSize]]

\* the bytes of b
BufferBytes(b) == View(b.heap, b.s)

\* the array with xs written from index i + 1 on
Overwrite(arr, i, xs) ==
    [j \in 1..Len(arr) |-> IF j > i /\ j <= i + Len(xs) THEN xs[j - i] ELSE arr[j]]

\* append(*b, xs...): in place when the capacity suffices, else into a fresh
\* zeroed array; the old array is garbage then
appendBytes(b, xs) ==
    IF b.s.len + Len(xs) <= b.s.cap
    THEN [heap |-> [b.heap EXCEPT ![b.s.a] = Overwrite(@, b.s.len, xs)],
          s |-> [b.s EXCEPT !.len = @ + Len(xs)]]
    ELSE [heap |-> <<Overwrite(Zeros(RoundUpSize(GrowCap(b.s.cap, b.s.len + Len(xs))), 0),
                               0, BufferBytes(b) \o xs)>>,
          s |-> [a |-> 1, len |-> b.s.len + Len(xs),
                 cap |-> RoundUpSize(GrowCap(b.s.cap, b.s.len + Len(xs)))]]

\* (*b)[:n]
Reslice(b, n) == [b EXCEPT !.s.len = n]

\* the bytes Grow appends when it needs a larger array
BufferGrow_Fresh(b, n) ==
    IF n < SmallBufferSize THEN growBuf
    ELSE Zeros(Max(b.s.len + n, 2 * b.s.cap) - b.s.len, 0)

\* Grow that clears the bytes it adds within the capacity
BufferGrow_Zeroed(b, n) ==
    IF n < 0 THEN b
    ELSE Reslice(appendBytes(b, Zeros(n, 0)), b.s.len + n)

\* Buffer.Grow
BufferGrow(b, n) ==
    IF n < 0 THEN b
    ELSE IF b.s.cap - b.s.len >= n THEN Reslice(b, b.s.len + n)
    ELSE Reslice(appendBytes(b, BufferGrow_Fresh(b, n)), b.s.len + n)

\* Buffer.Truncate
BufferTruncate(b, n) ==
    IF n < 0 THEN b
    ELSE IF n > b.s.len THEN Reslice(BufferGrow(b, n - b.s.len), n)
    ELSE Reslice(b, n)

\* the buffer is held in call.out, the buffer before the call and n in call.arg
DoBufferWrite(datas) ==
    \E data \in datas :
        /\ call.out.s.len + Len(data) <= MaxBufLen
        /\ call' = Call("Write", <<call.out, data>>, appendBytes(call.out, data), "none")
        /\ UNCHANGED <<hvars, levelColorList, callers>>

DoBufferTruncate(ns) ==
    \E n \in ns :
        /\ n <= MaxBufLen
        /\ call' = Call("Truncate", <<call.out, n>>, BufferTruncate(call.out, n), "none")
        /\ UNCHANGED <<hvars, levelColorList, callers>>

DoBufferGrow(ns) ==
    \E n \in ns :
        /\ call.out.s.len + n <= MaxBufLen
        /\ call' = Call("Grow", <<call.out, n>>, BufferGrow(call.out, n), "none")
        /\ UNCHANGED <<hvars, levelColorList, callers>>

----------------------------------------------------------------------------
(* SpecBuf: writes, Truncate and Grow on one buffer.                       *)

BufDatas == {<<1>>, <<2, 1>>, <<1, 2, 2>>}
BufSizes == -1..MaxBufLen

InitBuf ==
    /\ handlers = NewJSONHandler(defaultConfig).handlers
    /\ cfgs = NewJSONHandler(defaultConfig).cfgs
    /\ garrs = <<>>
    /\ barrs = <<>>
    /\ pool = <<>>
    /\ rec = NoRec
    /\ last = Idle
    /\ procs = [g \in Goroutines |-> IdleProc]
    /\ sink = <<>>
    /\ enc = NoEnc
    /\ levelColorList = DefaultLevelColors
    /\ call = Call("New", <<>>, NewBuffer, "none")
    /\ callers = NoCallers

NextBuf ==
    \/ DoBufferWrite(BufDatas)
    \/ DoBufferTruncate(BufSizes)
    \/ DoBufferGrow(BufSizes)

SpecBuf == InitBuf /\ [][NextBuf]_vars

OldBytes == BufferBytes(call.arg[1])
NewBytes == BufferBytes(call.out)
Min(a, b) == IF a < b THEN a ELSE b

\* the lengths after Truncate and Grow, and the bytes they keep
LengthsAndKeptBytes ==
    call.fn \in {"Truncate", "Grow"} =>
        /\ call.arg[2] < 0 => call.out = call.arg[1]
        /\ call.arg[2] >= 0 /\ call.fn = "Truncate" => Len(NewBytes) = call.arg[2]
        /\ call.arg[2] >= 0 /\ call.fn = "Grow" => Len(NewBytes) = Len(OldBytes) + call.arg[2]
        /\ \A i \in 1..Min(Len(OldBytes), Len(NewBytes)) : NewBytes[i] = OldBytes[i]

\* C28: Truncate(n) and Grow(n) with n < 0 change nothing; with n >= 0 the
\* length is n after Truncate and the old length plus n after Grow, the
\* bytes below the smaller of the two lengths are unchanged, and every byte
\* added by growing is zero, also after the buffer has been shrunk.
C28_TruncateGrowZeroFill ==
    /\ LengthsAndKeptBytes
    /\ call.fn \in {"Truncate", "Grow"} =>
          \A i \in Len(OldBytes) + 1..Len(NewBytes) : NewBytes[i] = 0

----------------------------------------------------------------------------
(* SpecKind: hooks that return a group or a lazy value for the built-in    *)
(* time and for an attribute; no value of the records is a marshaler.      *)

KindHooks == {"nil", "drop", "regroup", "relazy"}
KindConfigs == {[defaultConfig EXCEPT !.ReplaceAttr = hook] : hook \in KindHooks}
KindHeaders == {<<0, LevelInfo, 0, "m">>, <<1, LevelInfo, 0, "m">>}
KindAttrs == {PW, A1, Group("s", <<PW>>), Lazy("u", Group("u", <<PW>>))}

InitKind ==
    /\ \E config \in KindConfigs :
        /\ handlers = NewJSONHandler(config).handlers
        /\ cfgs = NewJSONHandler(config).cfgs
    /\ garrs = <<>>
    /\ barrs = <<>>
    /\ pool = <<>>
    /\ rec = NoRec
    /\ last = Idle
    /\ procs = [g \in Goroutines |-> IdleProc]
    /\ sink = <<>>
    /\ enc = NoEnc
    /\ levelColorList = DefaultLevelColors
    /\ call = NoCall
    /\ callers = NoCallers

NextKind ==
    \/ Len(handlers) < MaxChain /\ DoWithGroup(Newest, {"g"})
    \/ Len(handlers) < MaxChain /\ DoWithAttrs(Newest, {<<PW>>})
    \/ NewRecord(KindHeaders)
    \/ Len(rec.attrs) < MaxAttrs /\ AddAttrs(KindAttrs)
    \/ DoHandle(Newest, {rec}, {FALSE})

SpecKind == InitKind /\ [][NextKind]_vars

\* C30: no Handle ends in the "bad kind" panic of addValue, whatever the
\* hook returns for the built-in time or for an attribute, a group and a
\* lazy value included.
C30_NoBadKind == last.op = "Handle" => last.ret # "panic"

\* Handle panics only for a record with a time under the hook that returns a
\* group for the time
BadKindOnlyForTime ==
    last.op = "Handle" /\ last.ret = "panic" =>
        last.r.time # 0 /\ LastHook = "regroup"

====
